---- MODULE Spec2Model ----
(***************************************************************************)
(* The Django/DRF backend of sandy: the ORM tables behind the REST         *)
(* endpoints (users, conversations, recommendations, user profiles) and    *)
(* the request handlers that read and write them.  Every handler is one    *)
(* atomic step; the request it served and the response it gave are         *)
(* recorded in `response`.                                                 *)
(***************************************************************************)
EXTENDS Integers, Sequences, FiniteSets, Bags, TLC

VARIABLES
    users,            \* rows of the auth user table (users.User)
    conversations,    \* rows of chat.Conversation
    recommendations,  \* rows of recommendations.Recommendation
    profiles,         \* rows of profiles.UserProfile
    now,              \* serial of the last row created: its id and timestamp
    svc_users,        \* rows of the table users of PostgreSQLService
    user_sessions,    \* rows of the table user_sessions of PostgreSQLService,
                      \* a bag: two rows can differ in their random id only
    clock,            \* the time of day of the server, in days
    svc_conversations,    \* rows of the table conversations of PostgreSQLService
    user_interactions,    \* rows of its table user_interactions
    user_profiles,        \* rows of its table user_profiles
    svc_recommendations,  \* rows of its table recommendations
    svc_serial,           \* rows ever inserted in these four tables
    in_flight,        \* per server thread: the body of the registration it
                      \* serves, once exists() found no such email
    response          \* the last request served and the response to it

\* the tables PostgreSQLService.initialize creates, and the clock its
\* queries read
service == <<svc_users, user_sessions, clock>>

\* the other tables PostgreSQLService.initialize creates
svc_rows ==
    <<svc_conversations, user_interactions, user_profiles, svc_recommendations,
      svc_serial>>

vars ==
    <<users, conversations, recommendations, profiles, now, service, svc_rows,
      in_flight, response>>

\* ------------------------------------------------------------------ bounds
MaxUsers == 2     \* rows of the user table
MaxClock == 2     \* rows ever created in the other tables
MaxSessions == 2  \* rows of user_sessions at one time
MaxDay == 8       \* days the clock runs
MaxThreads == 2   \* requests the server handles at one time
MaxRows == 2      \* rows ever inserted in the other tables of the service

\* ------------------------------------------------------- values and strings
\* request.user of a request that carries no valid credentials
AnonymousUser == 0

IsAuthenticated(u) == u # AnonymousUser

\* Python values that reach str() in the handlers: int (a user's pk, the
\* value of an <int:...> path converter), uuid.UUID (the value of a
\* <uuid:...> path converter) and None (no such URL kwarg).
None == [t |-> "None"]
IntVal(n) == [t |-> "int", int |-> n]
UUIDVal(k) == [t |-> "UUID", int |-> k]

DecDigits == <<"0", "1", "2", "3", "4", "5", "6", "7", "8", "9">>
HexDigits == DecDigits \o <<"a", "b", "c", "d", "e", "f">>

RECURSIVE StrInt(_)
\* str(n) of a non-negative int: its decimal digits
StrInt(n) ==
    IF n < 10 THEN <<DecDigits[n + 1]>>
    ELSE StrInt(n \div 10) \o <<DecDigits[(n % 10) + 1]>>

RECURSIVE Pow16(_)
Pow16(e) == IF e = 0 THEN 1 ELSE 16 * Pow16(e - 1)

\* the i-th of the 32 hex digits of the 128-bit value k (k < 16^7 here)
HexDigitAt(k, i) ==
    IF 32 - i > 6 THEN "0" ELSE HexDigits[((k \div Pow16(32 - i)) % 16) + 1]

\* str(uuid.UUID(int=k)): 8-4-4-4-12 lower-case hex digits
StrUUID(k) ==
    LET hex == [i \in 1..32 |-> HexDigitAt(k, i)]
        dash == <<"-">>
    IN  SubSeq(hex, 1, 8) \o dash \o SubSeq(hex, 9, 12) \o dash \o
        SubSeq(hex, 13, 16) \o dash \o SubSeq(hex, 17, 20) \o dash \o
        SubSeq(hex, 21, 32)

\* str(x) and bool(x) of the values above
Str(x) == IF x.t = "int" THEN StrInt(x.int) ELSE
          IF x.t = "UUID" THEN StrUUID(x.int) ELSE
          <<"N", "o", "n", "e">>

Truthy(x) == (x.t = "UUID") \/ (x.t = "int" /\ x.int # 0)

SeqRange(s) == {s[i] : i \in 1..Len(s)}

\* the values the handlers pass to str(), with their str(), worked out once
PythonValues ==
    {None, UUIDVal(1)} \cup {IntVal(n) : n \in 0..MaxUsers}

StrOf == [x \in PythonValues |-> Str(x)]

\* ----------------------------------------------------------- URL resolving
\* django.urls path converters used by the urlconfs
UUIDPositionsOfDash == {9, 14, 19, 24}

DecChars == SeqRange(DecDigits)
HexChars == SeqRange(HexDigits)

UuidConverterMatches(seg) ==
    /\ Len(seg) = 36
    /\ \A i \in 1..36 :
         IF i \in UUIDPositionsOfDash THEN seg[i] = "-"
         ELSE seg[i] \in HexChars

IntConverterMatches(seg) ==
    Len(seg) > 0 /\ \A i \in 1..Len(seg) : seg[i] \in DecChars

DigitValue(c) == CHOOSE d \in 0..15 : HexDigits[d + 1] = c

RECURSIVE ParseNumber(_, _)
ParseNumber(seg, base) ==
    IF Len(seg) = 0 THEN 0
    ELSE base * ParseNumber(SubSeq(seg, 1, Len(seg) - 1), base)
         + DigitValue(seg[Len(seg)])

\* uuid.UUID(seg) of a matching segment (the digits past the 25th carry the
\* value in the modelled range)
UuidToPython(seg) == UUIDVal(ParseNumber(SubSeq(seg, 30, 36), 16))

IntToPython(seg) == IntVal(ParseNumber(seg, 10))

\* The path segments a requester puts where a route expects <user_id>: the
\* decimal form of an id, as register and /me return it, or a UUID.
AnyUUID == UUIDVal(1)

Segments(ids) == {StrOf[IntVal(i)] : i \in ids} \cup {StrOf[AnyUUID]}

\* what each converter makes of each of these segments, worked out once
NoMatch == [t |-> "NoMatch"]

PathSegments == Segments(1..MaxUsers)

UuidConverter ==
    [seg \in PathSegments |->
        IF UuidConverterMatches(seg) THEN UuidToPython(seg) ELSE NoMatch]

IntConverter ==
    [seg \in PathSegments |->
        IF IntConverterMatches(seg) THEN IntToPython(seg) ELSE NoMatch]

\* chat/urls.py and recommendations/urls.py: the router at '' and again
\* under users/<uuid:user_id>/.  A resolved URL gives the view's kwargs.
RouterUrls(ids) ==
    {[route |-> "root", seg |-> <<>>]} \cup
    {[route |-> "users", seg |-> s] : s \in Segments(ids)}

ScopedRouterResolves(url) ==
    url.route = "root" \/ UuidConverter[url.seg] # NoMatch

ScopedRouterKwargs(url) ==
    IF url.route = "root" THEN None ELSE UuidConverter[url.seg]

\* ------------------------------------------------------------- the response
\* request.GET.get / COOKIES.get / META.get of a key the request lacks
Absent == [absent |-> TRUE]

\* the credentials of a request: the query parameter 'token', the cookie
\* 'auth-token', and the headers Authorization and X-Auth-Token
NoCredentials ==
    [query |-> Absent, cookie |-> Absent, authorization |-> Absent,
     x_auth_token |-> Absent]

Response(view, action, requester, url, pk, body, status, data) ==
    [view |-> view, action |-> action, requester |-> requester, url |-> url,
     pk |-> pk, body |-> body, status |-> status, data |-> data,
     credentials |-> NoCredentials]

NoUrl == [route |-> "root", seg |-> <<>>]
NoBody == <<>>
NoPk == 0

Detail(text) == [detail |-> text]

NotAuthenticated == Detail("Authentication credentials were not provided.")

\* ------------------------------------------------------------ request bodies
\* A JSON object is a function from the keys it carries to their values.
Field(name, values) == {[k \in {name} |-> v] : v \in values}

Optional(name, values) == {NoBody} \cup Field(name, values)

Merge(f, g) ==
    [k \in DOMAIN f \cup DOMAIN g |-> IF k \in DOMAIN g THEN g[k] ELSE f[k]]

Has(body, k) == k \in DOMAIN body

\* request.data.get(k): None for a missing key; None and '' are both falsy
Get(body, k) == IF Has(body, k) THEN body[k] ELSE ""

\* --------------------------------------------------------------- user table
Emails == {"a@example.com", "b@example.com"}
Passwords == {"pw"}
Usernames == {"alice", "bob"}

\* What a password column holds: the algorithm that made the value and the
\* password it was made of; "plain" is the password stored as it is.
Stored(algorithm, password) == [algorithm |-> algorithm, of |-> password]

\* the first of settings.PASSWORD_HASHERS, the hasher make_password uses
PASSWORD_HASHER == "bcrypt"

\* django.contrib.auth.hashers.make_password: a salted one-way hash, never
\* the plaintext
make_password(p) == Stored(PASSWORD_HASHER, p)

UserIds == {u.id : u \in users}

\* AutoField primary key of the next row
NextUserId == Cardinality(users) + 1

\* AbstractUser: username is unique; email is not
UsernameTaken(name) == \E u \in users : u.username = name

NewUser(id, username, email, password) ==
    [id |-> id, username |-> username, email |-> email,
     password |-> make_password(password), is_active |-> TRUE]

\* User.objects.create_user(username, email, password): how accounts other
\* than the self-registered one come to exist (createsuperuser, the admin).
create_user(username, email, password) ==
    /\ Cardinality(users) < MaxUsers
    /\ ~UsernameTaken(username)
    /\ users' = users \cup {NewUser(NextUserId, username, email, password)}
    /\ response' = Response("manage", "create_user", AnonymousUser, NoUrl,
                            NextUserId, NoBody, 0, Detail(username))
    /\ UNCHANGED <<svc_rows, in_flight, service, conversations, recommendations, profiles, now>>

RegisterBodies ==
    {Merge(e, p) : e \in Optional("email", Emails \cup {""}),
                   p \in Optional("password", Passwords \cup {""})}

\* the mutant of RegisterAPIView_post that skips the exists() check
RegisterAPIView_post_no_exists_check(body) ==
    LET email == Get(body, "email")
        password == Get(body, "password")
        reply(status, data) ==
            Response("register", "post", AnonymousUser, NoUrl, NoPk, body,
                     status, data)
    IN  /\ UNCHANGED <<svc_rows, in_flight, service, conversations, recommendations, profiles, now>>
        /\ IF email = "" \/ password = ""
           THEN /\ response' = reply(400, Detail("Email and password are required"))
                /\ UNCHANGED users
           ELSE IF UsernameTaken("")
           THEN /\ response' = reply(500, Detail("IntegrityError"))
                /\ UNCHANGED users
           ELSE /\ Cardinality(users) < MaxUsers
                /\ users' = users \cup {NewUser(NextUserId, "", email, password)}
                /\ response' = reply(201, [id |-> StrInt(NextUserId), email |-> email])

\* RegisterAPIView.post (AllowAny).  User.objects.create is given no
\* username, so the row gets the field's default '', and username is unique:
\* the INSERT of a second such row raises IntegrityError, which the view does
\* not catch (500).
RegisterAPIView_post(body) ==
    LET email == Get(body, "email")
        password == Get(body, "password")
        reply(status, data) ==
            Response("register", "post", AnonymousUser, NoUrl, NoPk, body,
                     status, data)
    IN  /\ UNCHANGED <<svc_rows, in_flight, service, conversations, recommendations, profiles, now>>
        /\ IF email = "" \/ password = ""
           THEN /\ response' = reply(400, Detail("Email and password are required"))
                /\ UNCHANGED users
           ELSE IF \E u \in users : u.email = email
           THEN /\ response' = reply(400, Detail("User already exists"))
                /\ UNCHANGED users
           ELSE IF UsernameTaken("")
           THEN /\ response' = reply(500, Detail("IntegrityError"))
                /\ UNCHANGED users
           ELSE /\ Cardinality(users) < MaxUsers
                /\ users' = users \cup {NewUser(NextUserId, "", email, password)}
                /\ response' = reply(201, [id |-> StrInt(NextUserId), email |-> email])

Register == \E body \in RegisterBodies : RegisterAPIView_post(body)

\* RegisterAPIView.post on a thread of the server, up to the exists() query:
\* the 400 replies, or on to User.objects.create
RegisterAPIView_post_filter(thread, body) ==
    LET email == Get(body, "email")
        password == Get(body, "password")
        reply(status, data) ==
            Response("register", "post", AnonymousUser, NoUrl, NoPk, body,
                     status, data)
    IN  /\ in_flight[thread] = NoBody
        /\ UNCHANGED <<svc_rows, service, users, conversations, recommendations, profiles,
                       now>>
        /\ IF email = "" \/ password = ""
           THEN /\ response' = reply(400, Detail("Email and password are required"))
                /\ UNCHANGED in_flight
           ELSE IF \E u \in users : u.email = email
           THEN /\ response' = reply(400, Detail("User already exists"))
                /\ UNCHANGED in_flight
           ELSE /\ in_flight' = [in_flight EXCEPT ![thread] = body]
                /\ UNCHANGED response

\* the mutant of RegisterAPIView_post_create whose INSERT meets no unique
\* username
RegisterAPIView_post_create_any_username(thread) ==
    LET body == in_flight[thread]
    IN  /\ body # NoBody
        /\ UNCHANGED <<svc_rows, service, conversations, recommendations, profiles, now>>
        /\ in_flight' = [in_flight EXCEPT ![thread] = NoBody]
        /\ users' = users \cup {NewUser(NextUserId, "", Get(body, "email"),
                                        Get(body, "password"))}
        /\ response' = Response("register", "post", AnonymousUser, NoUrl, NoPk,
                                body, 201,
                                [id |-> StrInt(NextUserId),
                                 email |-> Get(body, "email")])

\* the rest of RegisterAPIView.post on that thread: User.objects.create, whose
\* INSERT the unique index on username refuses, and the reply
RegisterAPIView_post_create(thread) ==
    LET body == in_flight[thread]
        reply(status, data) ==
            Response("register", "post", AnonymousUser, NoUrl, NoPk, body,
                     status, data)
    IN  /\ body # NoBody
        /\ UNCHANGED <<svc_rows, service, conversations, recommendations, profiles, now>>
        /\ in_flight' = [in_flight EXCEPT ![thread] = NoBody]
        /\ IF UsernameTaken("")
           THEN /\ response' = reply(500, Detail("IntegrityError"))
                /\ UNCHANGED users
           ELSE /\ Cardinality(users) < MaxUsers
                /\ users' = users \cup {NewUser(NextUserId, "", Get(body, "email"),
                                                Get(body, "password"))}
                /\ response' = reply(201, [id |-> StrInt(NextUserId),
                                           email |-> Get(body, "email")])

RegisterFilter ==
    \E thread \in 1..MaxThreads, body \in RegisterBodies :
       RegisterAPIView_post_filter(thread, body)

RegisterCreate ==
    \E thread \in 1..MaxThreads : RegisterAPIView_post_create(thread)

CreateUser ==
    \E n \in Usernames, e \in Emails, p \in Passwords : create_user(n, e, p)

\* ------------------------------------------------------------------ login
\* a JWT of rest_framework_simplejwt: its type, the user_id claim, whether
\* the signature is the server's and whether exp has passed
Token(token_type, user_id, signed, expired) ==
    [token_type |-> token_type, user_id |-> user_id, signed |-> signed,
     expired |-> expired]

\* Token.for_user(user): freshly signed
for_user(token_type, user) == Token(token_type, user.id, TRUE, FALSE)

\* the mutant of check_password that accepts every password
check_password_any(password, encoded) == TRUE

\* django.contrib.auth.hashers.check_password
check_password(password, encoded) ==
    encoded.algorithm = PASSWORD_HASHER /\ encoded.of = password

\* django.contrib.auth.authenticate (ModelBackend): the user with that
\* username, if the password checks and the user is active; a set of at
\* most one user
authenticate(username, password) ==
    {u \in users : /\ u.username = username
                    /\ check_password(password, u.password)
                    /\ u.is_active}

\* EmailTokenObtainPairSerializer: 'email' and 'password' are required,
\* non-blank CharFields; validate() then finds the user.  The result is the
\* set of users the tokens are made for: empty when is_valid raises
\* (ValidationError, InvalidToken, or MultipleObjectsReturned from
\* User.objects.get(email=email)).
EmailTokenObtainPairSerializer_validate(body) ==
    LET email == Get(body, "email")
        password == Get(body, "password")
        by_email == {u \in users : u.email = email}
        first == authenticate(email, password)
        second == IF Cardinality(by_email) = 1
                  THEN authenticate((CHOOSE u \in by_email : TRUE).username, password)
                  ELSE {}
        user == IF first # {} THEN first
                ELSE IF Cardinality(by_email) > 1 THEN {}
                ELSE second
    IN  IF email = "" \/ password = "" THEN {}
        ELSE {u \in user : u.is_active}

LoginBodies ==
    {Merge(e, p) : e \in Optional("email", Emails \cup {""}),
                   p \in Optional("password", Passwords \cup {"wrong", ""})}

\* the mutant of LoginAPIView_post that answers 404 when no account has the
\* email
LoginAPIView_post_not_found(body) ==
    LET user == EmailTokenObtainPairSerializer_validate(body)
        reply(status, data) ==
            Response("login", "post", AnonymousUser, NoUrl, NoPk, body,
                     status, data)
    IN  /\ UNCHANGED <<svc_rows, in_flight, service, users, conversations, recommendations,
                       profiles, now>>
        /\ response' =
             IF \A u \in users : u.email # Get(body, "email")
             THEN reply(404, Detail("Not found"))
             ELSE IF user = {} THEN reply(401, Detail("Invalid credentials"))
             ELSE LET u == CHOOSE u \in user : TRUE
                  IN  reply(200, [refresh |-> for_user("refresh", u),
                                  access |-> for_user("access", u)])

\* LoginAPIView.post (AllowAny): every exception of is_valid is answered 401
LoginAPIView_post(body) ==
    LET user == EmailTokenObtainPairSerializer_validate(body)
        reply(status, data) ==
            Response("login", "post", AnonymousUser, NoUrl, NoPk, body,
                     status, data)
    IN  /\ UNCHANGED <<svc_rows, in_flight, service, users, conversations, recommendations, profiles, now>>
        /\ response' =
             IF user = {} THEN reply(401, Detail("Invalid credentials"))
             ELSE LET u == CHOOSE u \in user : TRUE
                  IN  reply(200, [refresh |-> for_user("refresh", u),
                                  access |-> for_user("access", u)])

Login == \E body \in LoginBodies : LoginAPIView_post(body)

\* is_active of AbstractUser is cleared by an administrator; no endpoint
\* does it
Deactivate ==
    \E u \in users :
       /\ u.is_active
       /\ users' = (users \ {u}) \cup {[u EXCEPT !.is_active = FALSE]}
       /\ response' = Response("manage", "deactivate", AnonymousUser, NoUrl,
                               u.id, NoBody, 0, Detail(u.username))
       /\ UNCHANGED <<svc_rows, in_flight, service, conversations, recommendations, profiles, now>>

\* --------------------------------------------- CustomJWTAuthentication
\* A header value is the sequence of its space-separated parts; a part is a
\* word or a token.
Word(text) == [word |-> text]
Bearer == Word("Bearer")
Header(parts) == [parts |-> parts]

IsToken(part) == "token_type" \in DOMAIN part

\* AccessToken(token) raises TokenError unless the token is a JWT with the
\* server's signature, exp ahead and token_type 'access'
AccessToken_validates(token) ==
    /\ IsToken(token)
    /\ token.signed
    /\ ~token.expired
    /\ token.token_type = "access"

\* what authenticate() gives: (user, token), None, or AuthenticationFailed
AuthUser(id) == [kind |-> "user", user |-> id]
AuthNone == [kind |-> "none"]
AuthFailed(detail) == [kind |-> "failed", detail |-> detail]

\* JWTAuthentication.get_user(validated_token): AuthenticationFailed, which
\* is neither InvalidToken nor TokenError, when the user is gone or inactive
get_user(validated_token) ==
    LET found == {u \in users : u.id = validated_token.user_id}
    IN  IF found = {} THEN AuthFailed("User not found")
        ELSE IF ~(CHOOSE u \in found : TRUE).is_active
        THEN AuthFailed("User is inactive")
        ELSE AuthUser(validated_token.user_id)

\* header.startswith('Bearer ')
StartsWithBearer(header) ==
    Len(header.parts) >= 2 /\ header.parts[1] = Bearer

\* the mutant of get_header that sends X-Auth-Token on as it is
get_header_without_prefix(request) ==
    IF request.authorization # Absent THEN request.authorization
    ELSE request.x_auth_token

\* CustomJWTAuthentication.get_header; Absent is None
get_header(request) ==
    IF request.authorization # Absent THEN request.authorization
    ELSE IF request.x_auth_token # Absent
    THEN IF StartsWithBearer(request.x_auth_token) THEN request.x_auth_token
         ELSE Header(<<Bearer>> \o request.x_auth_token.parts)
    ELSE Absent

\* CustomJWTAuthentication.get_raw_token, on parts = header.split(): Absent
\* is None
get_raw_token(header) ==
    LET parts == header.parts
    IN  IF Len(parts) = 0 THEN Absent
        ELSE IF parts[1] # Bearer THEN Absent
        ELSE IF Len(parts) # 2
        THEN AuthFailed("Authorization header must contain two space-delimited values")
        ELSE parts[2]

\* JWTAuthentication.authenticate, which calls the two overrides above
JWTAuthentication_authenticate(request) ==
    LET header == get_header(request)
        raw_token == get_raw_token(header)
    IN  IF header = Absent THEN AuthNone
        ELSE IF raw_token = Absent THEN AuthNone
        ELSE IF ~IsToken(raw_token) /\ "kind" \in DOMAIN raw_token THEN raw_token
        ELSE IF ~AccessToken_validates(raw_token)
        THEN AuthFailed("Given token not valid for any token type")
        ELSE get_user(raw_token)

\* the mutant of CustomJWTAuthentication_authenticate that reads the cookie
\* before the query parameter
CustomJWTAuthentication_authenticate_cookie_first(request) ==
    IF request.cookie # Absent /\ AccessToken_validates(request.cookie)
    THEN get_user(request.cookie)
    ELSE IF request.query # Absent /\ AccessToken_validates(request.query)
    THEN get_user(request.query)
    ELSE JWTAuthentication_authenticate(request)

\* CustomJWTAuthentication.authenticate: InvalidToken and TokenError of the
\* query parameter and of the cookie are swallowed
CustomJWTAuthentication_authenticate(request) ==
    IF request.query # Absent /\ AccessToken_validates(request.query)
    THEN get_user(request.query)
    ELSE IF request.cookie # Absent /\ AccessToken_validates(request.cookie)
    THEN get_user(request.cookie)
    ELSE JWTAuthentication_authenticate(request)

\* the tokens requests carry: an access token for each of two users, and
\* for user 1 an expired one, a refresh token and one with a foreign signature
GoodTokens == {Token("access", 1, TRUE, FALSE), Token("access", 2, TRUE, FALSE)}

ExpiredToken == Token("access", 1, TRUE, TRUE)
RefreshToken == Token("refresh", 1, TRUE, FALSE)
ForgedToken == Token("access", 1, FALSE, FALSE)

QueryValues == {Absent, ExpiredToken} \cup GoodTokens

CookieValues == {Absent, RefreshToken} \cup GoodTokens

AuthorizationValues ==
    {Absent, Header(<<>>), Header(<<Word("Basic"), Word("dXNlcg==")>>),
     Header(<<Bearer, Token("access", 1, TRUE, FALSE)>>),
     Header(<<Bearer, ForgedToken>>),
     Header(<<Bearer, Token("access", 2, TRUE, FALSE), Word("x")>>)}

XAuthTokenValues ==
    {Absent, Header(<<>>), Header(<<Bearer>>),
     Header(<<Token("access", 2, TRUE, FALSE)>>),
     Header(<<Bearer, Token("access", 2, TRUE, FALSE)>>),
     Header(<<ForgedToken>>)}

Credentials ==
    [query : QueryValues, cookie : CookieValues,
     authorization : AuthorizationValues, x_auth_token : XAuthTokenValues]

\* request.user as the views see it: the user, or AnonymousUser
RequestUser(auth) == IF auth.kind = "user" THEN auth.user ELSE AnonymousUser

\* a request to a view with no permission of its own (debug-headers): the
\* outcome of authentication and the header it read
Authenticate ==
    \E request \in Credentials :
       LET auth == CustomJWTAuthentication_authenticate(request)
       IN  /\ UNCHANGED <<svc_rows, in_flight, service, users, conversations, recommendations, profiles, now>>
           /\ response' =
                [Response("authenticate", "get", RequestUser(auth), NoUrl, NoPk,
                          NoBody, IF auth.kind = "failed" THEN 401 ELSE 200,
                          [auth |-> auth, header |-> get_header(request)])
                 EXCEPT !.credentials = request]

\* APIView.perform_authentication with the authentication class the settings
\* install for every view
perform_authentication(request) == CustomJWTAuthentication_authenticate(request)

\* the mutant of LogoutAPIView_post with permission AllowAny
LogoutAPIView_post_allow_any(request) ==
    LET auth == perform_authentication(request)
    IN  /\ UNCHANGED <<svc_rows, in_flight, service, users, conversations, recommendations, profiles, now>>
        /\ response' =
             [Response("logout", "post", RequestUser(auth), NoUrl, NoPk, NoBody,
                       200, Detail("Logged out"))
              EXCEPT !.credentials = request]

\* LogoutAPIView.post (IsAuthenticated): nothing is written
LogoutAPIView_post(request) ==
    LET auth == perform_authentication(request)
        reply(status, data) ==
            [Response("logout", "post", RequestUser(auth), NoUrl, NoPk, NoBody,
                      status, data)
             EXCEPT !.credentials = request]
    IN  /\ UNCHANGED <<svc_rows, in_flight, service, users, conversations, recommendations, profiles, now>>
        /\ response' =
             IF auth.kind = "failed" THEN reply(401, Detail(auth.detail))
             ELSE IF auth.kind = "none" THEN reply(401, NotAuthenticated)
             ELSE reply(200, Detail("Logged out"))

LogoutRequest == \E request \in Credentials : LogoutAPIView_post(request)

\* ------------------------------------------ PostgreSQLService: accounts
\* what a call of the service gives its caller
Returned(value) == [returned |-> value]
Raised(message) == [raised |-> message]

ServiceReply(action, args, data) ==
    Response("service", action, AnonymousUser, NoUrl, NoPk, args, 0, data)

\* the mutant of bcrypt_hashpw that stores the password as it is
bcrypt_hashpw_plaintext(password) == Stored("plain", password)

\* bcrypt.hashpw(password, bcrypt.gensalt(rounds)) and bcrypt.checkpw
bcrypt_hashpw(password) == Stored("bcrypt", password)

bcrypt_checkpw(password, hashed) ==
    hashed.algorithm = "bcrypt" /\ hashed.of = password

\* JWT_EXPIRES_IN, default '7d', and the lifetime of a session row, in days
JWT_EXPIRES_IN == 7
SessionDays == 7

jwt_secret == "jwt_secret"

\* jwt.encode({'userId': user_id, 'exp': exp}, key, algorithm='HS256')
jwt_encode(user_id, exp, key) == [userId |-> user_id, exp |-> exp, key |-> key]

\* _generate_jwt(user_id)
generate_jwt(user_id) == jwt_encode(user_id, clock + JWT_EXPIRES_IN, jwt_secret)

\* jwt.decode(token, key, algorithms=['HS256']) raises on a signature of
\* another key and on a token whose exp has come
jwt_decode_raises(token, key) == token.key # key \/ token.exp <= clock

\* the mutant of SessionRow whose expires_at is the time of the INSERT
SessionRow_expiring_now(user_id, token) ==
    [user_id |-> user_id, token |-> token, expires_at |-> clock]

\* the row _create_session(user_id, token) inserts (without its id)
SessionRow(user_id, token) ==
    [user_id |-> user_id, token |-> token, expires_at |-> clock + SessionDays]

\* INSERT INTO user_sessions
create_session(sessions, user_id, token) ==
    sessions (+) SetToBag({SessionRow(user_id, token)})

\* DELETE FROM user_sessions WHERE <the row is not one of keep>
DeleteExcept(sessions, keep) ==
    [r \in BagToSet(sessions) \cap keep |-> sessions[r]]

\* _cleanup_expired_sessions: DELETE ... WHERE expires_at < NOW()
cleanup_expired_sessions(sessions) ==
    DeleteExcept(sessions, {r \in BagToSet(sessions) : ~(r.expires_at < clock)})

\* what may go wrong after the user row is written: nothing, jwt.encode
\* raising, the INSERT of the session raising
Faults == {"none", "jwt", "session"}

FaultMessage(fault) ==
    IF fault = "jwt" THEN "jwt.encode failed" ELSE "INSERT INTO user_sessions failed"

ServiceUserData(row) == [id |-> row.id, email |-> row.email]

\* register_user(email, password): each statement commits as it runs
\* (there is no transaction around them)
register_user(email, password, fault) ==
    LET args == [email |-> email, password |-> password]
        row == [id |-> Cardinality(svc_users) + 1, email |-> email,
                password_hash |-> bcrypt_hashpw(password)]
        token == generate_jwt(row.id)
    IN  /\ UNCHANGED <<svc_rows, in_flight, users, conversations, recommendations, profiles, now, clock>>
        /\ IF \E u \in svc_users : u.email = email
           THEN /\ response' = ServiceReply("register_user", args,
                                            Raised("User already exists"))
                /\ UNCHANGED <<svc_users, user_sessions>>
           ELSE /\ Cardinality(svc_users) < MaxUsers
                /\ svc_users' = svc_users \cup {row}
                /\ IF fault # "none"
                   THEN /\ response' = ServiceReply("register_user", args,
                                                    Raised(FaultMessage(fault)))
                        /\ UNCHANGED user_sessions
                   ELSE /\ BagCardinality(user_sessions) < MaxSessions
                        /\ user_sessions' =
                             create_session(user_sessions, row.id, token)
                        /\ response' =
                             ServiceReply("register_user", args,
                                          Returned([user |-> ServiceUserData(row),
                                                    token |-> token]))

\* login_user(email, password)
login_user(email, password, fault) ==
    LET args == [email |-> email, password |-> password]
        found == {u \in svc_users : u.email = email}
        user_row == CHOOSE u \in found : TRUE
        token == generate_jwt(user_row.id)
        kept == cleanup_expired_sessions(user_sessions)
    IN  /\ UNCHANGED <<svc_rows, in_flight, users, conversations, recommendations, profiles, now,
                       svc_users, clock>>
        /\ IF found = {}
           THEN /\ response' = ServiceReply("login_user", args,
                                            Raised("Invalid credentials"))
                /\ UNCHANGED user_sessions
           ELSE IF ~bcrypt_checkpw(password, user_row.password_hash)
           THEN /\ response' = ServiceReply("login_user", args,
                                            Raised("Invalid credentials"))
                /\ UNCHANGED user_sessions
           ELSE IF fault = "jwt"
           THEN /\ response' = ServiceReply("login_user", args,
                                            Raised(FaultMessage(fault)))
                /\ UNCHANGED user_sessions
           ELSE IF fault = "session"
           THEN /\ response' = ServiceReply("login_user", args,
                                            Raised(FaultMessage(fault)))
                /\ user_sessions' = kept
           ELSE /\ BagCardinality(kept) < MaxSessions
                /\ user_sessions' = create_session(kept, user_row.id, token)
                /\ response' =
                     ServiceReply("login_user", args,
                                  Returned([user |-> ServiceUserData(user_row),
                                            token |-> token]))

\* the session rows verify_token selects: that token, not yet expired,
\* joined with their user
SessionsOf(token) ==
    {r \in BagToSet(user_sessions) : /\ r.token = token
                            /\ r.expires_at > clock
                            /\ \E u \in svc_users : u.id = r.user_id}

\* the mutant of verify_token that trusts the JWT and reads no session
verify_token_without_session(token) ==
    /\ UNCHANGED <<svc_rows, in_flight, users, conversations, recommendations, profiles, now, service>>
    /\ IF jwt_decode_raises(token, jwt_secret)
          \/ ~\E u \in svc_users : u.id = token.userId
       THEN response' = ServiceReply("verify_token", [token |-> token], Returned(None))
       ELSE \E u \in svc_users :
               /\ u.id = token.userId
               /\ response' = ServiceReply("verify_token", [token |-> token],
                                           Returned(ServiceUserData(u)))

\* verify_token(token): the user of the first row selected (the UPDATE of
\* last_accessed, a column left out here, is its only write)
verify_token(token) ==
    /\ UNCHANGED <<svc_rows, in_flight, users, conversations, recommendations, profiles, now, service>>
    /\ IF jwt_decode_raises(token, jwt_secret) \/ SessionsOf(token) = {}
       THEN response' = ServiceReply("verify_token", [token |-> token], Returned(None))
       ELSE \E session \in SessionsOf(token) :
               \E u \in svc_users :
                  /\ u.id = session.user_id
                  /\ response' = ServiceReply("verify_token", [token |-> token],
                                              Returned(ServiceUserData(u)))

\* logout(token): DELETE FROM user_sessions WHERE token = %s
logout(token) ==
    /\ UNCHANGED <<svc_rows, in_flight, users, conversations, recommendations, profiles, now,
                   svc_users, clock>>
    /\ user_sessions' =
         DeleteExcept(user_sessions,
                      {r \in BagToSet(user_sessions) : r.token # token})
    /\ response' = ServiceReply("logout", [token |-> token], Returned(None))

\* the tokens a caller can present: what _generate_jwt made for a user on
\* some day up to now, and a token signed with another key
PresentedTokens ==
    {jwt_encode(u.id, d + JWT_EXPIRES_IN, jwt_secret) :
        u \in svc_users, d \in 0..clock}
    \cup {jwt_encode(u.id, clock + JWT_EXPIRES_IN, "forged") : u \in svc_users}

ServicePasswords == Passwords \cup {"wrong"}

RegisterUser ==
    \E e \in Emails, p \in Passwords, fault \in Faults : register_user(e, p, fault)

LoginUser ==
    \E e \in Emails, p \in ServicePasswords, fault \in Faults :
       login_user(e, p, fault)

VerifyToken == \E t \in PresentedTokens : verify_token(t)

Logout == \E t \in PresentedTokens : logout(t)

\* a day passes
Tick ==
    /\ clock < MaxDay
    /\ clock' = clock + 1
    /\ response' = Response("none", "tick", AnonymousUser, NoUrl, NoPk, NoBody,
                            0, Detail(""))
    /\ UNCHANGED <<svc_rows, in_flight, users, conversations, recommendations, profiles, now,
                   svc_users, user_sessions>>

\* --------------------------------------------- PostgreSQLService: data
\* user_id UUID NOT NULL REFERENCES users(id)
UserExists(user_id) == \E u \in svc_users : u.id = user_id

\* the ids callers pass: those of the users, and ids no user has
ServiceUserIds == 1..MaxUsers

ForeignKeyViolation == Raised("IntegrityError: foreign key user_id")
CheckViolation == Raised("IntegrityError: check message_type")

\* CHECK (message_type IN ('user', 'assistant'))
MessageTypesAllowed == {"user", "assistant"}

MessageTypes == MessageTypesAllowed \cup {"system"}

\* save_conversation(user_id, message_type, message_text): the INSERT, which
\* the foreign key and the CHECK of the table can refuse
save_conversation(user_id, message_type, message_text) ==
    LET args == [user_id |-> user_id, message_type |-> message_type,
                 message_text |-> message_text]
    IN  /\ UNCHANGED <<in_flight, users, conversations, recommendations, profiles,
                       now, service, user_interactions, user_profiles,
                       svc_recommendations>>
        /\ IF ~UserExists(user_id)
           THEN /\ response' = ServiceReply("save_conversation", args,
                                            ForeignKeyViolation)
                /\ UNCHANGED <<svc_conversations, svc_serial>>
           ELSE IF message_type \notin MessageTypesAllowed
           THEN /\ response' = ServiceReply("save_conversation", args,
                                            CheckViolation)
                /\ UNCHANGED <<svc_conversations, svc_serial>>
           ELSE /\ svc_serial < MaxRows
                /\ svc_serial' = svc_serial + 1
                /\ svc_conversations' = svc_conversations \cup
                     {[id |-> svc_serial + 1, user_id |-> user_id,
                       message_type |-> message_type,
                       message_text |-> message_text, timestamp |-> clock]}
                /\ response' = ServiceReply("save_conversation", args,
                                            Returned(None))

\* the orders in which ORDER BY timestamp DESC can give the rows: rows of one
\* timestamp come in any order
OrderByTimestampDescOrders(rows) ==
    {order \in [1..Cardinality(rows) -> rows] :
        /\ \A i, j \in DOMAIN order : i # j => order[i] # order[j]
        /\ \A i, j \in DOMAIN order :
              i < j => order[i].timestamp >= order[j].timestamp}

\* LIMIT %s
Limit(order, limit) ==
    SubSeq(order, 1, IF limit < Len(order) THEN limit ELSE Len(order))

\* the mutant of Reversed that leaves the rows as selected
Reversed_not(order) == order

\* reversed(res['rows'])
Reversed(order) == [i \in 1..Len(order) |-> order[Len(order) + 1 - i]]

\* the dict get_conversation_history makes of a row
MessageOf(row, user_id) ==
    [id |-> row.id, userId |-> user_id, role |-> row.message_type,
     type |-> row.message_type, content |-> row.message_text,
     timestamp |-> row.timestamp]

\* get_conversation_history(user_id, limit)
get_conversation_history(user_id, limit) ==
    /\ UNCHANGED <<svc_rows, in_flight, users, conversations, recommendations,
                   profiles, now, service>>
    /\ \E order \in OrderByTimestampDescOrders(
                       {c \in svc_conversations : c.user_id = user_id}) :
          LET rows == Reversed(Limit(order, limit))
          IN  response' =
                 ServiceReply("get_conversation_history",
                              [user_id |-> user_id, limit |-> limit],
                              Returned([i \in 1..Len(rows) |->
                                          MessageOf(rows[i], user_id)]))

\* clear_conversation_history(user_id): DELETE ... WHERE user_id = %s
clear_conversation_history(user_id) ==
    /\ UNCHANGED <<in_flight, users, conversations, recommendations, profiles,
                   now, service, user_interactions, user_profiles,
                   svc_recommendations, svc_serial>>
    /\ svc_conversations' = {c \in svc_conversations : c.user_id # user_id}
    /\ response' = ServiceReply("clear_conversation_history",
                                [user_id |-> user_id], Returned(None))

GetConversationHistory ==
    \E user_id \in ServiceUserIds, limit \in 0..MaxRows :
       get_conversation_history(user_id, limit)

ClearConversationHistory ==
    \E user_id \in ServiceUserIds : clear_conversation_history(user_id)

\* record_interaction(user_id, interaction_type)
record_interaction(user_id, interaction_type) ==
    LET args == [user_id |-> user_id, interaction_type |-> interaction_type]
    IN  /\ UNCHANGED <<in_flight, users, conversations, recommendations, profiles,
                       now, service, svc_conversations, user_profiles,
                       svc_recommendations>>
        /\ IF ~UserExists(user_id)
           THEN /\ response' = ServiceReply("record_interaction", args,
                                            ForeignKeyViolation)
                /\ UNCHANGED <<user_interactions, svc_serial>>
           ELSE /\ svc_serial < MaxRows
                /\ svc_serial' = svc_serial + 1
                /\ user_interactions' = user_interactions \cup
                     {[id |-> svc_serial + 1, user_id |-> user_id,
                       interaction_type |-> interaction_type,
                       timestamp |-> clock]}
                /\ response' = ServiceReply("record_interaction", args,
                                            Returned(None))

\* CONVERSATION_RETENTION_DAYS and ANALYTICS_RETENTION_DAYS, by default
CONVERSATION_RETENTION_DAYS == 90
ANALYTICS_RETENTION_DAYS == 365

\* the mutant of Older that takes the row of exactly that age as well
OlderOrAsOld(timestamp, days) == timestamp <= clock - days

\* timestamp < NOW() - INTERVAL '<days> days'
Older(timestamp, days) == timestamp < clock - days

\* cleanup_old_data(): three DELETEs
cleanup_old_data ==
    /\ UNCHANGED <<in_flight, users, conversations, recommendations, profiles,
                   now, svc_users, clock, user_profiles, svc_recommendations,
                   svc_serial>>
    /\ svc_conversations' =
         {c \in svc_conversations : ~Older(c.timestamp, CONVERSATION_RETENTION_DAYS)}
    /\ user_interactions' =
         {i \in user_interactions : ~Older(i.timestamp, ANALYTICS_RETENTION_DAYS)}
    /\ user_sessions' = cleanup_expired_sessions(user_sessions)
    /\ response' = ServiceReply("cleanup_old_data", NoBody, Returned(None))

\* the days on which the service is called after day 0
LaterDays == {8, 90, 91, 365, 366}

\* time passes until one of those days
Elapse ==
    \E day \in LaterDays :
       /\ day > clock
       /\ clock' = day
       /\ response' = Response("none", "elapse", AnonymousUser, NoUrl, NoPk,
                               NoBody, 0, Detail(""))
       /\ UNCHANGED <<svc_rows, in_flight, users, conversations, recommendations,
                      profiles, now, svc_users, user_sessions>>

\* a registration in which nothing goes wrong
Enrol == \E email \in Emails : register_user(email, "pw", "none")

SaveConversation ==
    \E user_id \in ServiceUserIds, message_type \in MessageTypes :
       save_conversation(user_id, message_type, "hi")

SaveMessage ==
    \E user \in svc_users : save_conversation(user.id, "user", "hi")

RecordInteraction ==
    \E user \in svc_users : record_interaction(user.id, "chat")

CleanupOldData == cleanup_old_data

\* SQL and Python values of columns that can be NULL: None, a bool, a text
Bool(b) == [bool |-> b]
Text(t) == [text |-> t]

\* json.dumps(value), and the dict the driver gives for a JSONB column
json_dumps(value) == [json |-> value]
json_loads(column) == column.json

\* save_recommendation(user_id, recommendation_type, recommendation_data)
save_recommendation(user_id, recommendation_data) ==
    LET args == [user_id |-> user_id, recommendation_data |-> recommendation_data]
    IN  /\ UNCHANGED <<in_flight, users, conversations, recommendations, profiles,
                       now, service, svc_conversations, user_interactions,
                       user_profiles>>
        /\ IF ~UserExists(user_id)
           THEN /\ response' = ServiceReply("save_recommendation", args,
                                            ForeignKeyViolation)
                /\ UNCHANGED <<svc_recommendations, svc_serial>>
           ELSE /\ svc_serial < MaxRows
                /\ svc_serial' = svc_serial + 1
                /\ svc_recommendations' = svc_recommendations \cup
                     {[id |-> svc_serial + 1, user_id |-> user_id,
                       recommendation_data |-> json_dumps(recommendation_data),
                       was_helpful |-> None, feedback |-> None]}
                /\ response' = ServiceReply("save_recommendation", args,
                                            Returned(None))

\* the mutant of FeedbackTarget without AND user_id = %s
FeedbackTarget_any_owner(row, user_id, recommendation_id) ==
    row.id = recommendation_id

\* WHERE id = %s AND user_id = %s
FeedbackTarget(row, user_id, recommendation_id) ==
    row.id = recommendation_id /\ row.user_id = user_id

\* update_recommendation_feedback(user_id, recommendation_id, was_helpful,
\* feedback): UPDATE recommendations SET was_helpful, feedback WHERE ...
update_recommendation_feedback(user_id, recommendation_id, was_helpful, feedback) ==
    /\ UNCHANGED <<in_flight, users, conversations, recommendations, profiles,
                   now, service, svc_conversations, user_interactions,
                   user_profiles, svc_serial>>
    /\ svc_recommendations' =
         {IF FeedbackTarget(r, user_id, recommendation_id)
          THEN [r EXCEPT !.was_helpful = Bool(was_helpful), !.feedback = feedback]
          ELSE r : r \in svc_recommendations}
    /\ response' =
         ServiceReply("update_recommendation_feedback",
                      [user_id |-> user_id, recommendation_id |-> recommendation_id,
                       was_helpful |-> was_helpful, feedback |-> feedback],
                      Returned(None))

SaveRamp ==
    \E user \in svc_users : save_recommendation(user.id, [title |-> "ramp"])

UpdateRecommendationFeedback ==
    \E user_id \in ServiceUserIds, recommendation_id \in 1..MaxRows,
       was_helpful \in BOOLEAN, feedback \in {None, Text("thanks")} :
       update_recommendation_feedback(user_id, recommendation_id, was_helpful,
                                      feedback)

\* the profile rows of a user: user_id is UNIQUE
ProfileRowsOf(user_id) == {p \in user_profiles : p.user_id = user_id}

\* the mutant of save_user_profile without ON CONFLICT: a plain INSERT into a
\* table that lacks the UNIQUE of user_id
save_user_profile_insert_only(user_id, profile) ==
    LET args == [user_id |-> user_id, profile |-> profile]
    IN  /\ UNCHANGED <<in_flight, users, conversations, recommendations, profiles,
                       now, service, svc_conversations, user_interactions,
                       svc_recommendations>>
        /\ IF ~UserExists(user_id)
           THEN /\ response' = ServiceReply("save_user_profile", args,
                                            ForeignKeyViolation)
                /\ UNCHANGED <<user_profiles, svc_serial>>
           ELSE /\ svc_serial < MaxRows
                /\ svc_serial' = svc_serial + 1
                /\ user_profiles' = user_profiles \cup
                     {[id |-> svc_serial + 1, user_id |-> user_id,
                       profile_data |-> json_dumps(profile)]}
                /\ response' = ServiceReply("save_user_profile", args,
                                            Returned(None))

\* save_user_profile(user_id, profile): INSERT ... ON CONFLICT (user_id) DO
\* UPDATE SET profile_data
save_user_profile(user_id, profile) ==
    LET args == [user_id |-> user_id, profile |-> profile]
    IN  /\ UNCHANGED <<in_flight, users, conversations, recommendations, profiles,
                       now, service, svc_conversations, user_interactions,
                       svc_recommendations>>
        /\ IF ~UserExists(user_id)
           THEN /\ response' = ServiceReply("save_user_profile", args,
                                            ForeignKeyViolation)
                /\ UNCHANGED <<user_profiles, svc_serial>>
           ELSE IF ProfileRowsOf(user_id) # {}
           THEN /\ user_profiles' =
                     {IF p.user_id = user_id
                      THEN [p EXCEPT !.profile_data = json_dumps(profile)]
                      ELSE p : p \in user_profiles}
                /\ UNCHANGED svc_serial
                /\ response' = ServiceReply("save_user_profile", args,
                                            Returned(None))
           ELSE /\ svc_serial < MaxRows
                /\ svc_serial' = svc_serial + 1
                /\ user_profiles' = user_profiles \cup
                     {[id |-> svc_serial + 1, user_id |-> user_id,
                       profile_data |-> json_dumps(profile)]}
                /\ response' = ServiceReply("save_user_profile", args,
                                            Returned(None))

\* get_user_profile(user_id): {**profile_data, 'userId': user_id} of the first
\* row selected, or None
get_user_profile(user_id) ==
    /\ UNCHANGED <<svc_rows, in_flight, users, conversations, recommendations,
                   profiles, now, service>>
    /\ IF ProfileRowsOf(user_id) = {}
       THEN response' = ServiceReply("get_user_profile", [user_id |-> user_id],
                                     Returned(None))
       ELSE \E row \in ProfileRowsOf(user_id) :
               response' =
                  ServiceReply("get_user_profile", [user_id |-> user_id],
                               Returned(Merge(json_loads(row.profile_data),
                                              [userId |-> user_id])))

\* delete_user_profile(user_id): whether the DELETE removed a row
delete_user_profile(user_id) ==
    /\ UNCHANGED <<in_flight, users, conversations, recommendations, profiles,
                   now, service, svc_conversations, user_interactions,
                   svc_recommendations, svc_serial>>
    /\ user_profiles' = user_profiles \ ProfileRowsOf(user_id)
    /\ response' = ServiceReply("delete_user_profile", [user_id |-> user_id],
                                Returned(Bool(ProfileRowsOf(user_id) # {})))

\* the profiles callers save; one carries a 'userId' of its own
ProfileDicts == {[bio |-> "a"], [bio |-> "b", userId |-> 9]}

SaveBio ==
    \E user \in svc_users : save_user_profile(user.id, [bio |-> "a"])

SaveUserProfile ==
    \E user_id \in ServiceUserIds, profile \in ProfileDicts :
       save_user_profile(user_id, profile)

GetUserProfile == \E user_id \in ServiceUserIds : get_user_profile(user_id)

DeleteUserProfile == \E user_id \in ServiceUserIds : delete_user_profile(user_id)

\* ------------------------------------------ rest_framework: serializers
Restrict(f, keys) == [k \in keys |-> f[k]]

\* ModelSerializer.is_valid: every writable field the model requires must be
\* given unless the update is partial, and a 'user' given to a writable
\* PrimaryKeyRelatedField must be the pk of an existing user.  Read-only
\* fields of the input are ignored.
is_valid(fields, read_only, required, body, partial) ==
    LET writable == fields \ read_only
    IN  /\ partial \/ \A f \in writable \cap required : Has(body, f)
        /\ ("user" \in writable /\ Has(body, "user")) => body.user \in UserIds

validated_data(fields, read_only, body) ==
    Restrict(body, (fields \ read_only) \cap DOMAIN body)

\* serializer.data: the declared fields of the row
to_representation(fields, row) == Restrict(row, fields)

RECURSIVE OrderByTimestampDesc(_)
\* order_by('-timestamp')
OrderByTimestampDesc(rows) ==
    IF rows = {} THEN <<>>
    ELSE LET newest == CHOOSE r \in rows :
                           \A q \in rows : q.timestamp <= r.timestamp
         IN  <<newest>> \o OrderByTimestampDesc(rows \ {newest})

\* what a routed viewset request is answered with before the handler runs:
\* 404 when the URL matches no route, 401 when IsAuthenticated refuses it,
\* 0 when the handler runs
Refused(u, url) ==
    IF ~ScopedRouterResolves(url) THEN 404
    ELSE IF ~IsAuthenticated(u) THEN 401
    ELSE 0

RefusedDetail(status) ==
    IF status = 404 THEN Detail("Not found.")
    ELSE Detail("Authentication credentials were not provided.")

\* the row of the queryset with that pk (GenericAPIView.get_object), if any
Found(queryset, pk) == {r \in SeqRange(queryset) : r.id = pk}

\* ---------------------------------------------------------- chat: the table
ConversationSerializer_fields ==
    {"id", "user", "message_type", "message_text", "timestamp"}

\* the mutant of ConversationSerializer_read_only_fields that leaves 'user'
\* writable, as RecommendationSerializer does
ConversationSerializer_read_only_fields_without_user == {"id", "timestamp"}

ConversationSerializer_read_only_fields == {"id", "user", "timestamp"}

\* Conversation's columns without null, blank or a default
Conversation_required == {"user", "message_type", "message_text"}

\* bodies with and without 'user': empty, one field, every required field
ConversationBodies ==
    {Merge(a, b) :
        a \in Optional("user", 1..MaxUsers),
        b \in {NoBody, [message_type |-> "assistant"],
               [message_type |-> "user", message_text |-> "hi"]}}

\* the mutant of ConversationViewSet_get_queryset that forgets filter(user=user)
ConversationViewSet_get_queryset_unfiltered(user, user_id) ==
    IF IsAuthenticated(user)
    THEN IF Truthy(user_id) /\ StrOf[IntVal(user)] # StrOf[user_id]
         THEN <<>>
         ELSE OrderByTimestampDesc(conversations)
    ELSE <<>>

\* the mutant of ConversationViewSet_get_queryset without the URL user_id check
ConversationViewSet_get_queryset_ignoring_url(user, user_id) ==
    IF IsAuthenticated(user)
    THEN OrderByTimestampDesc({c \in conversations : c.user = user})
    ELSE <<>>

ConversationViewSet_get_queryset(user, user_id) ==
    IF IsAuthenticated(user)
    THEN IF Truthy(user_id) /\ StrOf[IntVal(user)] # StrOf[user_id]
         THEN <<>>
         ELSE OrderByTimestampDesc({c \in conversations : c.user = user})
    ELSE <<>>

ConversationData(row) == to_representation(ConversationSerializer_fields, row)

ConversationReply(action, u, url, body, status, data) ==
    Response("conversation", action, u, url, NoPk, body, status, data)

ConversationViewSet_list(u, url) ==
    LET qs == ConversationViewSet_get_queryset(u, ScopedRouterKwargs(url))
        reply(status, data) == ConversationReply("list", u, url, NoBody, status, data)
    IN  /\ UNCHANGED <<svc_rows, in_flight, service, users, conversations, recommendations, profiles, now>>
        /\ response' =
             IF Refused(u, url) # 0
             THEN reply(Refused(u, url), RefusedDetail(Refused(u, url)))
             ELSE reply(200, [i \in DOMAIN qs |-> ConversationData(qs[i])])

\* CreateModelMixin.create with perform_create: serializer.save(user=request.user)
ConversationViewSet_create(u, url, body) ==
    LET reply(status, data) == ConversationReply("create", u, url, body, status, data)
        row == Merge(Merge(validated_data(ConversationSerializer_fields,
                                          ConversationSerializer_read_only_fields,
                                          body),
                           [user |-> u]),
                     [id |-> now + 1, timestamp |-> now + 1])
    IN  /\ UNCHANGED <<svc_rows, in_flight, service, users, recommendations, profiles>>
        /\ IF Refused(u, url) # 0
           THEN /\ response' = reply(Refused(u, url), RefusedDetail(Refused(u, url)))
                /\ UNCHANGED <<conversations, now>>
           ELSE IF ~is_valid(ConversationSerializer_fields,
                             ConversationSerializer_read_only_fields,
                             Conversation_required, body, FALSE)
           THEN /\ response' = reply(400, Detail("Invalid input."))
                /\ UNCHANGED <<conversations, now>>
           ELSE /\ now < MaxClock
                /\ now' = now + 1
                /\ conversations' = conversations \cup {row}
                /\ response' = reply(201, ConversationData(row))

ConversationViewSet_retrieve(u, url, pk) ==
    LET qs == ConversationViewSet_get_queryset(u, ScopedRouterKwargs(url))
        reply(status, data) == ConversationReply("retrieve", u, url, NoBody, status, data)
    IN  /\ UNCHANGED <<svc_rows, in_flight, service, users, conversations, recommendations, profiles, now>>
        /\ response' =
             IF Refused(u, url) # 0
             THEN reply(Refused(u, url), RefusedDetail(Refused(u, url)))
             ELSE IF Found(qs, pk) = {}
             THEN reply(404, Detail("Not found."))
             ELSE reply(200, ConversationData(CHOOSE r \in Found(qs, pk) : TRUE))

\* UpdateModelMixin.update (PUT) and partial_update (PATCH); perform_update
\* is serializer.save()
ConversationViewSet_update(u, url, pk, body, partial) ==
    LET qs == ConversationViewSet_get_queryset(u, ScopedRouterKwargs(url))
        action == IF partial THEN "partial_update" ELSE "update"
        reply(status, data) == ConversationReply(action, u, url, body, status, data)
        instance == CHOOSE r \in Found(qs, pk) : TRUE
        row == Merge(instance,
                     validated_data(ConversationSerializer_fields,
                                    ConversationSerializer_read_only_fields, body))
    IN  /\ UNCHANGED <<svc_rows, in_flight, service, users, recommendations, profiles, now>>
        /\ IF Refused(u, url) # 0
           THEN /\ response' = reply(Refused(u, url), RefusedDetail(Refused(u, url)))
                /\ UNCHANGED conversations
           ELSE IF Found(qs, pk) = {}
           THEN /\ response' = reply(404, Detail("Not found."))
                /\ UNCHANGED conversations
           ELSE IF ~is_valid(ConversationSerializer_fields,
                             ConversationSerializer_read_only_fields,
                             Conversation_required, body, partial)
           THEN /\ response' = reply(400, Detail("Invalid input."))
                /\ UNCHANGED conversations
           ELSE /\ conversations' = (conversations \ {instance}) \cup {row}
                /\ response' = reply(200, ConversationData(row))

ConversationViewSet_destroy(u, url, pk) ==
    LET qs == ConversationViewSet_get_queryset(u, ScopedRouterKwargs(url))
        reply(status, data) == ConversationReply("destroy", u, url, NoBody, status, data)
    IN  /\ UNCHANGED <<svc_rows, in_flight, service, users, recommendations, profiles, now>>
        /\ IF Refused(u, url) # 0
           THEN /\ response' = reply(Refused(u, url), RefusedDetail(Refused(u, url)))
                /\ UNCHANGED conversations
           ELSE IF Found(qs, pk) = {}
           THEN /\ response' = reply(404, Detail("Not found."))
                /\ UNCHANGED conversations
           ELSE /\ conversations' = conversations \ Found(qs, pk)
                /\ response' = reply(204, NoBody)

\* ----------------------------------------------- recommendations: the table
RecommendationSerializer_fields ==
    {"id", "user", "recommendation_data", "was_helpful", "timestamp"}

\* 'user' is not among them
RecommendationSerializer_read_only_fields == {"id", "timestamp"}

\* Recommendation's columns without null, blank or a default
Recommendation_required == {"user", "recommendation_data"}

\* was_helpful = BooleanField(null=True)
Recommendation_defaults == [was_helpful |-> "null"]

\* bodies with and without 'user': empty, one field, every required field
RecommendationBodies ==
    {Merge(a, b) :
        a \in Optional("user", 1..MaxUsers),
        b \in {NoBody, [was_helpful |-> "true"],
               [recommendation_data |-> "{}"]}}

RecommendationViewSet_get_queryset(user, user_id) ==
    IF IsAuthenticated(user)
    THEN IF Truthy(user_id) /\ StrOf[IntVal(user)] # StrOf[user_id]
         THEN <<>>
         ELSE OrderByTimestampDesc({r \in recommendations : r.user = user})
    ELSE <<>>

RecommendationRow(row) == to_representation(RecommendationSerializer_fields, row)

RecommendationReply(action, u, url, body, status, data) ==
    Response("recommendation", action, u, url, NoPk, body, status, data)

RecommendationViewSet_list(u, url) ==
    LET qs == RecommendationViewSet_get_queryset(u, ScopedRouterKwargs(url))
        reply(status, data) == RecommendationReply("list", u, url, NoBody, status, data)
    IN  /\ UNCHANGED <<svc_rows, in_flight, service, users, conversations, recommendations, profiles, now>>
        /\ response' =
             IF Refused(u, url) # 0
             THEN reply(Refused(u, url), RefusedDetail(Refused(u, url)))
             ELSE reply(200, [i \in DOMAIN qs |-> RecommendationRow(qs[i])])

\* CreateModelMixin.create with perform_create: serializer.save(user=request.user),
\* which overrides the validated 'user' of the body
RecommendationViewSet_create(u, url, body) ==
    LET reply(status, data) == RecommendationReply("create", u, url, body, status, data)
        row == Merge(Merge(Merge(Recommendation_defaults,
                                 validated_data(RecommendationSerializer_fields,
                                                RecommendationSerializer_read_only_fields,
                                                body)),
                           [user |-> u]),
                     [id |-> now + 1, timestamp |-> now + 1])
    IN  /\ UNCHANGED <<svc_rows, in_flight, service, users, conversations, profiles>>
        /\ IF Refused(u, url) # 0
           THEN /\ response' = reply(Refused(u, url), RefusedDetail(Refused(u, url)))
                /\ UNCHANGED <<recommendations, now>>
           ELSE IF ~is_valid(RecommendationSerializer_fields,
                             RecommendationSerializer_read_only_fields,
                             Recommendation_required, body, FALSE)
           THEN /\ response' = reply(400, Detail("Invalid input."))
                /\ UNCHANGED <<recommendations, now>>
           ELSE /\ now < MaxClock
                /\ now' = now + 1
                /\ recommendations' = recommendations \cup {row}
                /\ response' = reply(201, RecommendationRow(row))

RecommendationViewSet_retrieve(u, url, pk) ==
    LET qs == RecommendationViewSet_get_queryset(u, ScopedRouterKwargs(url))
        reply(status, data) == RecommendationReply("retrieve", u, url, NoBody, status, data)
    IN  /\ UNCHANGED <<svc_rows, in_flight, service, users, conversations, recommendations, profiles, now>>
        /\ response' =
             IF Refused(u, url) # 0
             THEN reply(Refused(u, url), RefusedDetail(Refused(u, url)))
             ELSE IF Found(qs, pk) = {}
             THEN reply(404, Detail("Not found."))
             ELSE reply(200, RecommendationRow(CHOOSE r \in Found(qs, pk) : TRUE))

\* UpdateModelMixin.update (PUT) and partial_update (PATCH).  The view does
\* not override perform_update: serializer.save() writes every validated
\* field, 'user' included.
RecommendationViewSet_update(u, url, pk, body, partial) ==
    LET qs == RecommendationViewSet_get_queryset(u, ScopedRouterKwargs(url))
        action == IF partial THEN "partial_update" ELSE "update"
        reply(status, data) == RecommendationReply(action, u, url, body, status, data)
        instance == CHOOSE r \in Found(qs, pk) : TRUE
        row == Merge(instance,
                     validated_data(RecommendationSerializer_fields,
                                    RecommendationSerializer_read_only_fields, body))
    IN  /\ UNCHANGED <<svc_rows, in_flight, service, users, conversations, profiles, now>>
        /\ IF Refused(u, url) # 0
           THEN /\ response' = reply(Refused(u, url), RefusedDetail(Refused(u, url)))
                /\ UNCHANGED recommendations
           ELSE IF Found(qs, pk) = {}
           THEN /\ response' = reply(404, Detail("Not found."))
                /\ UNCHANGED recommendations
           ELSE IF ~is_valid(RecommendationSerializer_fields,
                             RecommendationSerializer_read_only_fields,
                             Recommendation_required, body, partial)
           THEN /\ response' = reply(400, Detail("Invalid input."))
                /\ UNCHANGED recommendations
           ELSE /\ recommendations' = (recommendations \ {instance}) \cup {row}
                /\ response' = reply(200, RecommendationRow(row))

RecommendationViewSet_destroy(u, url, pk) ==
    LET qs == RecommendationViewSet_get_queryset(u, ScopedRouterKwargs(url))
        reply(status, data) == RecommendationReply("destroy", u, url, NoBody, status, data)
    IN  /\ UNCHANGED <<svc_rows, in_flight, service, users, conversations, profiles, now>>
        /\ IF Refused(u, url) # 0
           THEN /\ response' = reply(Refused(u, url), RefusedDetail(Refused(u, url)))
                /\ UNCHANGED recommendations
           ELSE IF Found(qs, pk) = {}
           THEN /\ response' = reply(404, Detail("Not found."))
                /\ UNCHANGED recommendations
           ELSE /\ recommendations' = recommendations \ Found(qs, pk)
                /\ response' = reply(204, NoBody)

\* ------------------------------------------------------ profiles: the table
UserProfileSerializer_fields == {"id", "user", "bio"}

\* 'user' is not among them
UserProfileSerializer_read_only_fields == {"id"}

\* UserProfile's columns without null, blank or a default
UserProfile_required == {"user"}

UserProfile_defaults == [bio |-> ""]

ProfileBodies ==
    {Merge(a, b) : a \in Optional("user", 1..MaxUsers), b \in Optional("bio", {"b"})}

\* user = OneToOneField: the serializer's UniqueValidator refuses a user who
\* has a profile other than the instance being updated
UserProfileSerializer_is_valid(body, partial, instance) ==
    /\ is_valid(UserProfileSerializer_fields, UserProfileSerializer_read_only_fields,
                UserProfile_required, body, partial)
    /\ Has(body, "user") =>
         ~\E q \in profiles \ instance : q.user = body.user

UserProfileSerializer_validated(body) ==
    validated_data(UserProfileSerializer_fields,
                   UserProfileSerializer_read_only_fields, body)

ProfileData(row) == to_representation(UserProfileSerializer_fields, row)

\* a new row, as Model.save() of a fresh instance writes it
NewProfile(values) ==
    Merge(Merge(UserProfile_defaults, values), [id |-> now + 1])

\* serializer.save() on an instance: every validated field is written
SavedProfile(instance, values) == Merge(instance, values)

SafeMethods == {"GET", "HEAD", "OPTIONS"}

IsOwnerOrReadOnly_has_object_permission(method, obj, u) ==
    IF method \in SafeMethods THEN TRUE ELSE obj.user = u

UserProfileViewSet_get_queryset(user) ==
    IF IsAuthenticated(user) THEN {q \in profiles : q.user = user} ELSE {}

ProfileReply(view, action, u, url, body, status, data) ==
    Response(view, action, u, url, NoPk, body, status, data)

UserProfileViewSet_list(u) ==
    LET reply(status, data) ==
            ProfileReply("profile", "list", u, NoUrl, NoBody, status, data)
    IN  /\ UNCHANGED <<svc_rows, in_flight, service, users, conversations, recommendations, profiles, now>>
        /\ response' =
             IF ~IsAuthenticated(u) THEN reply(401, NotAuthenticated)
             ELSE reply(200, {ProfileData(q) : q \in UserProfileViewSet_get_queryset(u)})

\* CreateModelMixin.create; the view has no perform_create, so the row's
\* user is the validated 'user' of the body
UserProfileViewSet_create(u, body) ==
    LET reply(status, data) ==
            ProfileReply("profile", "create", u, NoUrl, body, status, data)
        row == NewProfile(UserProfileSerializer_validated(body))
    IN  /\ UNCHANGED <<svc_rows, in_flight, service, users, conversations, recommendations>>
        /\ IF ~IsAuthenticated(u)
           THEN /\ response' = reply(401, NotAuthenticated)
                /\ UNCHANGED <<profiles, now>>
           ELSE IF ~UserProfileSerializer_is_valid(body, FALSE, {})
           THEN /\ response' = reply(400, Detail("Invalid input."))
                /\ UNCHANGED <<profiles, now>>
           ELSE /\ now < MaxClock
                /\ now' = now + 1
                /\ profiles' = profiles \cup {row}
                /\ response' = reply(201, ProfileData(row))

UserProfileViewSet_retrieve(u, pk) ==
    LET found == {q \in UserProfileViewSet_get_queryset(u) : q.id = pk}
        reply(status, data) ==
            ProfileReply("profile", "retrieve", u, NoUrl, NoBody, status, data)
    IN  /\ UNCHANGED <<svc_rows, in_flight, service, users, conversations, recommendations, profiles, now>>
        /\ response' =
             IF ~IsAuthenticated(u) THEN reply(401, NotAuthenticated)
             ELSE IF found = {} THEN reply(404, Detail("Not found."))
             ELSE reply(200, ProfileData(CHOOSE q \in found : TRUE))

\* UpdateModelMixin.update (PUT) and partial_update (PATCH)
UserProfileViewSet_update(u, pk, body, partial) ==
    LET found == {q \in UserProfileViewSet_get_queryset(u) : q.id = pk}
        instance == CHOOSE q \in found : TRUE
        method == IF partial THEN "PATCH" ELSE "PUT"
        action == IF partial THEN "partial_update" ELSE "update"
        reply(status, data) ==
            ProfileReply("profile", action, u, NoUrl, body, status, data)
        row == SavedProfile(instance, UserProfileSerializer_validated(body))
    IN  /\ UNCHANGED <<svc_rows, in_flight, service, users, conversations, recommendations, now>>
        /\ IF ~IsAuthenticated(u)
           THEN /\ response' = reply(401, NotAuthenticated)
                /\ UNCHANGED profiles
           ELSE IF found = {}
           THEN /\ response' = reply(404, Detail("Not found."))
                /\ UNCHANGED profiles
           ELSE IF ~IsOwnerOrReadOnly_has_object_permission(method, instance, u)
           THEN /\ response' = reply(403, Detail("Forbidden"))
                /\ UNCHANGED profiles
           ELSE IF ~UserProfileSerializer_is_valid(body, partial, {instance})
           THEN /\ response' = reply(400, Detail("Invalid input."))
                /\ UNCHANGED profiles
           ELSE /\ profiles' = (profiles \ {instance}) \cup {row}
                /\ response' = reply(200, ProfileData(row))

UserProfileViewSet_destroy(u, pk) ==
    LET found == {q \in UserProfileViewSet_get_queryset(u) : q.id = pk}
        instance == CHOOSE q \in found : TRUE
        reply(status, data) ==
            ProfileReply("profile", "destroy", u, NoUrl, NoBody, status, data)
    IN  /\ UNCHANGED <<svc_rows, in_flight, service, users, conversations, recommendations, now>>
        /\ IF ~IsAuthenticated(u)
           THEN /\ response' = reply(401, NotAuthenticated)
                /\ UNCHANGED profiles
           ELSE IF found = {}
           THEN /\ response' = reply(404, Detail("Not found."))
                /\ UNCHANGED profiles
           ELSE IF ~IsOwnerOrReadOnly_has_object_permission("DELETE", instance, u)
           THEN /\ response' = reply(403, Detail("Forbidden"))
                /\ UNCHANGED profiles
           ELSE /\ profiles' = profiles \ {instance}
                /\ response' = reply(204, NoBody)

\* users/urls.py: <int:user_id>/profile/ ; profiles/urls.py:
\* users/<uuid:user_id>/profile/
DetailUrls(ids) == {[route |-> r, seg |-> s] : r \in {"int", "uuid"}, s \in Segments(ids)}

DetailResolves(url) ==
    IF url.route = "int" THEN IntConverter[url.seg] # NoMatch
    ELSE UuidConverter[url.seg] # NoMatch

DetailKwargs(url) ==
    IF url.route = "int" THEN IntConverter[url.seg] ELSE UuidConverter[url.seg]

\* the mutant of UserProfileDetailView_get that looks the profile up by the
\* user_id of the URL
UserProfileDetailView_get_by_url(u, url) ==
    LET reply(status, data) ==
            ProfileReply("profile_detail", "get", u, url, NoBody, status, data)
        named == DetailKwargs(url).int
        found == {q \in profiles : q.user = named}
        row == NewProfile([user |-> named])
    IN  /\ UNCHANGED <<svc_rows, in_flight, service, users, conversations, recommendations>>
        /\ IF ~DetailResolves(url)
           THEN /\ response' = reply(404, Detail("Not found."))
                /\ UNCHANGED <<profiles, now>>
           ELSE IF ~IsAuthenticated(u)
           THEN /\ response' = reply(401, NotAuthenticated)
                /\ UNCHANGED <<profiles, now>>
           ELSE IF found # {}
           THEN /\ response' = reply(200, ProfileData(CHOOSE q \in found : TRUE))
                /\ UNCHANGED <<profiles, now>>
           ELSE /\ now < MaxClock
                /\ now' = now + 1
                /\ profiles' = profiles \cup {row}
                /\ response' = reply(200, ProfileData(row))

\* UserProfileDetailView.get: user_id of the URL is not read
UserProfileDetailView_get(u, url) ==
    LET reply(status, data) ==
            ProfileReply("profile_detail", "get", u, url, NoBody, status, data)
        found == {q \in profiles : q.user = u}
        row == NewProfile([user |-> u])
    IN  /\ UNCHANGED <<svc_rows, in_flight, service, users, conversations, recommendations>>
        /\ IF ~DetailResolves(url)
           THEN /\ response' = reply(404, Detail("Not found."))
                /\ UNCHANGED <<profiles, now>>
           ELSE IF ~IsAuthenticated(u)
           THEN /\ response' = reply(401, NotAuthenticated)
                /\ UNCHANGED <<profiles, now>>
           ELSE IF found # {}
           THEN /\ response' = reply(200, ProfileData(CHOOSE q \in found : TRUE))
                /\ UNCHANGED <<profiles, now>>
           ELSE /\ now < MaxClock
                /\ now' = now + 1
                /\ profiles' = profiles \cup {row}
                /\ response' = reply(200, ProfileData(row))

\* UserProfileDetailView.get served on a thread, up to the DoesNotExist of
\* UserProfile.objects.get(user=user): a profile found is the reply
UserProfileDetailView_get_select(thread, u, url) ==
    LET found == {q \in profiles : q.user = u}
    IN  /\ in_flight[thread] = NoBody
        /\ DetailResolves(url)
        /\ IsAuthenticated(u)
        /\ UNCHANGED <<svc_rows, service, users, conversations, recommendations,
                       profiles, now>>
        /\ IF found # {}
           THEN /\ response' =
                     ProfileReply("profile_detail", "get", u, url, NoBody, 200,
                                  ProfileData(CHOOSE q \in found : TRUE))
                /\ UNCHANGED in_flight
           ELSE /\ in_flight' = [in_flight EXCEPT ![thread] =
                                    [user |-> u, url |-> url]]
                /\ UNCHANGED response

\* the rest of UserProfileDetailView.get on that thread:
\* UserProfile.objects.create(user=user), whose INSERT the unique index of the
\* OneToOneField refuses when the user has a profile by now, and the reply
UserProfileDetailView_get_create(thread) ==
    LET u == in_flight[thread].user
        url == in_flight[thread].url
        row == NewProfile([user |-> u])
        reply(status, data) ==
            ProfileReply("profile_detail", "get", u, url, NoBody, status, data)
    IN  /\ in_flight[thread] # NoBody
        /\ UNCHANGED <<svc_rows, service, users, conversations, recommendations>>
        /\ in_flight' = [in_flight EXCEPT ![thread] = NoBody]
        /\ IF \E q \in profiles : q.user = u
           THEN /\ response' = reply(500, Detail("IntegrityError"))
                /\ UNCHANGED <<profiles, now>>
           ELSE /\ now < MaxClock
                /\ now' = now + 1
                /\ profiles' = profiles \cup {row}
                /\ response' = reply(200, ProfileData(row))

ProfileGetSelect ==
    \E thread \in 1..MaxThreads, u \in UserIds :
       \E url \in DetailUrls({u}) : UserProfileDetailView_get_select(thread, u, url)

ProfileGetCreate ==
    \E thread \in 1..MaxThreads : UserProfileDetailView_get_create(thread)

\* the mutant of PutForbidden that lets every requester through
PutNeverForbidden(u, user_id) == FALSE

\* the 403 check of UserProfileDetailView.put
PutForbidden(u, user_id) == StrOf[IntVal(u)] # StrOf[user_id]

\* UserProfileDetailView.put: get_or_create commits the new row before the
\* serializer validates the body
UserProfileDetailView_put(u, url, body) ==
    LET reply(status, data) ==
            ProfileReply("profile_detail", "put", u, url, body, status, data)
        found == {q \in profiles : q.user = u}
        profile == IF found # {} THEN CHOOSE q \in found : TRUE
                   ELSE NewProfile([user |-> u])
        row == SavedProfile(profile, UserProfileSerializer_validated(body))
    IN  /\ UNCHANGED <<svc_rows, in_flight, service, users, conversations, recommendations>>
        /\ IF ~DetailResolves(url)
           THEN /\ response' = reply(404, Detail("Not found."))
                /\ UNCHANGED <<profiles, now>>
           ELSE IF ~IsAuthenticated(u)
           THEN /\ response' = reply(401, NotAuthenticated)
                /\ UNCHANGED <<profiles, now>>
           ELSE IF PutForbidden(u, DetailKwargs(url))
           THEN /\ response' = reply(403, Detail("Forbidden"))
                /\ UNCHANGED <<profiles, now>>
           ELSE /\ IF found = {} THEN now < MaxClock /\ now' = now + 1
                                 ELSE UNCHANGED now
                /\ IF ~UserProfileSerializer_is_valid(body, TRUE, {profile})
                   THEN /\ response' = reply(400, Detail("Invalid input."))
                        /\ profiles' = profiles \cup {profile}
                   ELSE /\ response' = reply(200, ProfileData(row))
                        /\ profiles' = (profiles \ found) \cup {row}

\* ------------------------------------------------ the requests of a viewset
\* who sends a request: a user of the table, or nobody
Requesters == UserIds \cup {AnonymousUser}

\* the pks a request names: the rows ever created
Pks == 1..now

\* the URLs a requester uses: the router's root, the user-scoped route with
\* the requester's own id and with a UUID
UrlsOf(u) == RouterUrls({u} \ {AnonymousUser})

\* the user-scoped URLs that resolve, and the root
ResolvingUrls == {url \in RouterUrls({}) : ScopedRouterResolves(url)}

\* a handler that answers before it reads the body is sent one body
BodiesRead(read, bodies) == IF read THEN bodies ELSE {NoBody}

\* accounts are made one after the other
AccountNames == <<"alice", "bob", "carol", "dave">>

EmailOf(username) == IF username = "alice" THEN "a@example.com" ELSE "b@example.com"

CreateAccount ==
    /\ NextUserId <= Len(AccountNames)
    /\ create_user(AccountNames[NextUserId], EmailOf(AccountNames[NextUserId]), "pw")

ConversationRequest ==
    \/ \E u \in Requesters : \E url \in UrlsOf(u) : ConversationViewSet_list(u, url)
    \/ \E u \in UserIds : \E url \in UrlsOf(u) :
         \E body \in BodiesRead(Refused(u, url) = 0, ConversationBodies) :
            ConversationViewSet_create(u, url, body)
    \/ \E u \in UserIds, url \in ResolvingUrls, pk \in Pks :
         \/ ConversationViewSet_retrieve(u, url, pk)
         \/ ConversationViewSet_destroy(u, url, pk)
         \/ \E partial \in BOOLEAN :
              \E body \in BodiesRead(
                    Found(ConversationViewSet_get_queryset(u, ScopedRouterKwargs(url)), pk) # {},
                    ConversationBodies) :
                 ConversationViewSet_update(u, url, pk, body, partial)

\* POSTs of a message of each type to the conversations endpoint
ConversationPost ==
    \E u \in UserIds : \E url \in UrlsOf(u) :
       \E message_type \in MessageTypes :
          ConversationViewSet_create(
             u, url, [message_type |-> message_type, message_text |-> "hi"])

RecommendationRequest ==
    \/ \E u \in Requesters : \E url \in UrlsOf(u) : RecommendationViewSet_list(u, url)
    \/ \E u \in UserIds : \E url \in UrlsOf(u) :
         \E body \in BodiesRead(Refused(u, url) = 0, RecommendationBodies) :
            RecommendationViewSet_create(u, url, body)
    \/ \E u \in UserIds, url \in ResolvingUrls, pk \in Pks :
         \/ RecommendationViewSet_retrieve(u, url, pk)
         \/ RecommendationViewSet_destroy(u, url, pk)
         \/ \E partial \in BOOLEAN :
              \E body \in BodiesRead(
                    Found(RecommendationViewSet_get_queryset(u, ScopedRouterKwargs(url)), pk) # {},
                    RecommendationBodies) :
                 RecommendationViewSet_update(u, url, pk, body, partial)

ProfileRequest ==
    \/ \E u \in Requesters : UserProfileViewSet_list(u)
    \/ \E u \in Requesters :
         \E body \in BodiesRead(IsAuthenticated(u), ProfileBodies) :
            UserProfileViewSet_create(u, body)
    \/ \E u \in UserIds, pk \in Pks :
         \/ UserProfileViewSet_retrieve(u, pk)
         \/ UserProfileViewSet_destroy(u, pk)
         \/ \E partial \in BOOLEAN :
              \E body \in BodiesRead(
                    \E q \in UserProfileViewSet_get_queryset(u) : q.id = pk,
                    ProfileBodies) :
                 UserProfileViewSet_update(u, pk, body, partial)
    \/ \E u \in Requesters, url \in DetailUrls(UserIds) :
         \/ UserProfileDetailView_get(u, url)
         \/ \E body \in BodiesRead(DetailResolves(url) /\ IsAuthenticated(u)
                                     /\ ~PutForbidden(u, DetailKwargs(url)),
                                   ProfileBodies) :
               UserProfileDetailView_put(u, url, body)

\* ------------------------------------ claims on conversations and recommendations
RowViews == {"conversation", "recommendation"}

\* the kwargs the two routes of a router hand to the view
RouterKwargs == {None, AnyUUID}

\* the rows every queryset and every 200 answer to list or retrieve hold
\* belong to the requester
OwnRowsOnly ==
    /\ \A u \in UserIds, k \in RouterKwargs :
         /\ \A r \in SeqRange(ConversationViewSet_get_queryset(u, k)) : r.user = u
         /\ \A r \in SeqRange(RecommendationViewSet_get_queryset(u, k)) : r.user = u
    /\ (response.view \in RowViews /\ response.status = 200) =>
         /\ response.action = "list" =>
              \A i \in DOMAIN response.data : response.data[i].user = response.requester
         /\ response.action = "retrieve" => response.data.user = response.requester

\* the rows of a table that a step changed or deleted
Touched(before, after) == before \ after

\* the rows a step created or changed, as they are after it
Written(before, after) == after \ before

\* the owner of a row that a step kept is the owner it had
OwnersKept(before, after) ==
    \A r \in before, q \in after : q.id = r.id => q.user = r.user

\* C1: for ConversationViewSet and RecommendationViewSet, whatever requests
\* were served before, every row get_queryset yields to a requester U, and
\* every row a list or retrieve returns to U, has user = U, and every row a
\* request of U changes or deletes was a row of U.
C1_NoAccessToRowsOfOthers ==
    /\ []OwnRowsOnly
    /\ [][\A r \in Touched(conversations, conversations') \cup
                   Touched(recommendations, recommendations') :
             r.user = response'.requester]_vars

\* U lists conversations and gets some, while another user owns one too
C1_Witness ==
    /\ response.view = "conversation"
    /\ response.action = "list"
    /\ response.status = 200
    /\ Len(response.data) > 0
    /\ \E c \in conversations : c.user # response.requester

\* C2 (as stated): every recommendation's user is the user whose request
\* created it, after any creates and updates (PUT/PATCH).
C2_RecommendationOwnerIsCreator ==
    [][/\ \A r \in Written(recommendations, recommendations') :
             r.user = response'.requester
       /\ OwnersKept(recommendations, recommendations')]_vars

\* C4: a conversation created through ConversationViewSet is owned by the
\* requester whatever 'user' the body carries (the 201 answer says so too),
\* and no update changes the owner of a conversation.
C4_ConversationOwnerIsRequester ==
    /\ [](response.view = "conversation" /\ response.status \in {200, 201}
          /\ response.action \in {"create", "update", "partial_update"}
            => response.data.user = response.requester)
    /\ [][/\ \A c \in Written(conversations, conversations') :
                 c.user = response'.requester
           /\ OwnersKept(conversations, conversations')]_vars

\* a conversation was updated with a body that names another user
C4_Witness ==
    /\ response.view = "conversation"
    /\ response.action \in {"update", "partial_update"}
    /\ response.status = 200
    /\ Has(response.body, "user")
    /\ response.body.user \in UserIds \ {response.requester}
    /\ \E c \in conversations : c.user = response.requester

\* the request named a user_id other than the requester's on the user-scoped route
ForeignScope(u, url) ==
    /\ url.route = "users"
    /\ ScopedRouterResolves(url)
    /\ IsAuthenticated(u)
    /\ Truthy(ScopedRouterKwargs(url))
    /\ StrOf[IntVal(u)] # StrOf[ScopedRouterKwargs(url)]

\* C5: when the user-scoped route carries a user_id that differs from the
\* requester's id, both get_queryset return the empty set: list answers 200
\* with no rows, and retrieve, update and delete answer 404.
C5_ForeignScopeIsEmpty ==
    /\ \A u \in UserIds : \A url \in UrlsOf(u) :
         ForeignScope(u, url) =>
           /\ ConversationViewSet_get_queryset(u, ScopedRouterKwargs(url)) = <<>>
           /\ RecommendationViewSet_get_queryset(u, ScopedRouterKwargs(url)) = <<>>
    /\ (response.view \in RowViews /\ ForeignScope(response.requester, response.url)) =>
         /\ response.action = "list" => response.status = 200 /\ response.data = <<>>
         /\ response.action \in {"retrieve", "update", "partial_update", "destroy"} =>
              response.status = 404

\* a requester who owns conversations lists a foreign scope and gets none
C5_Witness ==
    /\ response.view = "conversation"
    /\ response.action = "list"
    /\ ForeignScope(response.requester, response.url)
    /\ response.status = 200
    /\ response.data = <<>>
    /\ \E c \in conversations : c.user = response.requester

\* the user-scoped chat URL with the requester's own id, as register returns it
OwnScope(u, url) ==
    IsAuthenticated(u) /\ url = [route |-> "users", seg |-> StrInt(u)]

\* C6 (as stated): a POST of a valid conversation to the requester's own
\* user-scoped chat endpoint creates it (201), and a GET on the same endpoint
\* answers 200 with the requester's conversations, newest first.
C6_OwnScopeRoundTrip ==
    (response.view = "conversation" /\ OwnScope(response.requester, response.url)) =>
       /\ (response.action = "create" /\ Has(response.body, "message_type")
           /\ Has(response.body, "message_text")) => response.status = 201
       /\ response.action = "list" =>
            /\ response.status = 200
            /\ response.data =
                 LET own == OrderByTimestampDesc(
                                {c \in conversations : c.user = response.requester})
                 IN  [i \in DOMAIN own |-> ConversationData(own[i])]

\* ------------------------------------------------------- claims on profiles
\* C3 (as stated): every profile whose user is U was created by a request
\* of U and has been modified by requests of U only.
C3_ProfileMadeAndChangedByOwner ==
    [][\A q \in Written(profiles, profiles') : q.user = response'.requester]_vars

\* a step served a request of an authenticated user to UserProfileDetailView
DetailStep(action) ==
    /\ response'.view = "profile_detail"
    /\ response'.action = action
    /\ DetailResolves(response'.url)
    /\ IsAuthenticated(response'.requester)

ProfilesOf(rows, u) == {q \in rows : q.user = u}

\* C7: UserProfileDetailView.put with a URL user_id other than the
\* requester's answers 403 'Forbidden' and leaves every profile as it was;
\* with the requester's id it creates the requester's profile if there was
\* none, changes no other profile, and on 200 that profile carries the
\* fields of the body.
C7_PutOwnProfileOnly ==
    [][DetailStep("put") =>
        LET u == response'.requester
            body == response'.body
            mine == ProfilesOf(profiles, u)
            target == IF mine # {} THEN {q.id : q \in mine} ELSE {now'}
        IN  IF StrOf[IntVal(u)] # StrOf[DetailKwargs(response'.url)]
            THEN /\ response'.status = 403
                 /\ response'.data = Detail("Forbidden")
                 /\ profiles' = profiles
            ELSE /\ response'.status \in {200, 400}
                 /\ {q.id : q \in profiles'} = {q.id : q \in profiles} \cup target
                 /\ mine = {} => now' = now + 1
                 /\ \A q \in profiles \ mine : q \in profiles'
                 /\ response'.status = 200 =>
                      \E q \in profiles' :
                         /\ q.id \in target
                         /\ response'.data = ProfileData(q)
                         /\ \A k \in DOMAIN body : q[k] = body[k]]_vars

\* a put that names the profile of another user was refused
C7_Witness ==
    /\ response.view = "profile_detail"
    /\ response.action = "put"
    /\ response.status = 403
    /\ response.url.route = "int"
    /\ \E q \in profiles : IntVal(q.user) = DetailKwargs(response.url)

\* C8: UserProfileDetailView.get answers with the requester's profile, never
\* with that of the user the URL names; it creates the profile when the
\* requester has none and creates nothing when there is one, so the
\* requester has exactly one profile afterwards.
C8_GetOwnProfile ==
    [][DetailStep("get") =>
        LET u == response'.requester
            mine == ProfilesOf(profiles, u)
        IN  /\ response'.status = 200
            /\ response'.data.user = u
            /\ \E q \in profiles' : ProfilesOf(profiles', u) = {q}
                                    /\ response'.data = ProfileData(q)
            /\ mine # {} => profiles' = profiles
            /\ mine = {} => \E q \in profiles' : /\ q \notin profiles
                                                 /\ profiles' = profiles \cup {q}]_vars

\* a requester got the own profile from the URL of another user who has one
C8_Witness ==
    /\ response.view = "profile_detail"
    /\ response.action = "get"
    /\ response.status = 200
    /\ response.url.route = "int"
    /\ DetailKwargs(response.url) # IntVal(response.requester)
    /\ \E q \in profiles : IntVal(q.user) = DetailKwargs(response.url)
    /\ response.data.user = response.requester

\* ------------------------------------------------- claims on registration
NonEmptyCredentials(body) == Get(body, "email") # "" /\ Get(body, "password") # ""

\* C9 (as stated): every RegisterAPIView.post with a non-empty password and
\* an email no existing user has answers 201 with the new user's id and
\* email and adds exactly one user, whatever registrations came before.
C9_EveryFreshRegistrationSucceeds ==
    [][(/\ response'.view = "register"
        /\ NonEmptyCredentials(response'.body)
        /\ ~\E u \in users : u.email = response'.body.email)
       => /\ response'.status = 201
          /\ response'.data = [id |-> StrInt(NextUserId),
                               email |-> response'.body.email]
          /\ Cardinality(users') = Cardinality(users) + 1
          /\ users \subseteq users']_vars

\* C10: RegisterAPIView.post answers 400 'Email and password are required'
\* when the email or the password is missing or empty, and 400 'User already
\* exists' when both are given and a user has that email; in both cases the
\* user table is left as it was.
C10_RegisterRejects ==
    [][response'.view = "register" =>
        /\ ~NonEmptyCredentials(response'.body) =>
             /\ response'.status = 400
             /\ response'.data = Detail("Email and password are required")
             /\ users' = users
        /\ (/\ NonEmptyCredentials(response'.body)
            /\ \E u \in users : u.email = response'.body.email) =>
             /\ response'.status = 400
             /\ response'.data = Detail("User already exists")
             /\ users' = users]_vars

\* a registration was refused because the email is taken, and one because
\* a credential is missing, with users in the table
C10_Witness ==
    /\ response.view = "register"
    /\ response.status = 400
    /\ response.data = Detail("User already exists")
    /\ \E u \in users : u.email = response.body.email

\* ------------------------------------------------------- claims on login
\* the users a login with (email, password) is for: that email, that
\* password, active
GoodLogins(body) ==
    {u \in users : /\ u.email = Get(body, "email")
                    /\ u.password = make_password(Get(body, "password"))
                    /\ u.is_active}

\* C11: LoginAPIView.post with the email and password of a registered,
\* active user answers 200 with a refresh and an access token for that user;
\* with an unknown email, a wrong password or an inactive user it answers
\* 401 'Invalid credentials' and the answer carries no token.
C11_LoginAfterRegistration ==
    [][response'.view = "login" =>
        LET body == response'.body
        IN  /\ (NonEmptyCredentials(body) /\ GoodLogins(body) # {}) =>
                 /\ response'.status = 200
                 /\ \E u \in GoodLogins(body) :
                       /\ response'.data.access = for_user("access", u)
                       /\ response'.data.refresh = for_user("refresh", u)
            /\ (~NonEmptyCredentials(body) \/ GoodLogins(body) = {}) =>
                 /\ response'.status = 401
                 /\ response'.data = Detail("Invalid credentials")
            /\ users' = users]_vars

\* the registered user logged in with the email and password of the registration
C11_Witness ==
    /\ response.view = "login"
    /\ response.status = 200
    /\ \E u \in users : /\ u.username = ""
                         /\ u.email = response.body.email
                         /\ response.data.access.user_id = u.id

\* C12 (as stated): the answer to a successful login carries the access
\* token in 'access_token' and the user's id in 'user.id'.
C12_LoginAnswerNamesTokenAndUser ==
    (response.view = "login" /\ response.status = 200) =>
       /\ Has(response.data, "access_token")
       /\ Has(response.data, "user")
       /\ Has(response.data.user, "id")

\* ----------------------------------------------------- claims on passwords
\* C13: every user row RegisterAPIView.post or register_user wrote holds a
\* bcrypt hash of the password, never the password itself, and a login
\* (LoginAPIView.post answering 200, login_user returning) is one whose
\* password is the password the stored hash of that user was made of.
C13_PasswordsStoredHashed ==
    /\ \A u \in users : u.password.algorithm = "bcrypt"
    /\ \A u \in svc_users : u.password_hash.algorithm = "bcrypt"
    /\ (response.view = "login" /\ response.status = 200) =>
          \E u \in users : /\ u.id = response.data.access.user_id
                            /\ u.password.of = response.body.password
    /\ (response.view = "service" /\ response.action = "login_user"
        /\ Has(response.data, "returned")) =>
          \E u \in svc_users : /\ u.id = response.data.returned.user.id
                                /\ u.password_hash.of = response.body.password

\* a user of the service logged in while a user registered over REST exists
C13_Witness ==
    /\ response.view = "service"
    /\ response.action = "login_user"
    /\ Has(response.data, "returned")
    /\ users # {}

\* ------------------------------------------ claims on the service's sessions
ServiceStep(action) == response.view = "service" /\ response.action = action

\* verify_token returned a user
Verified == ServiceStep("verify_token") /\ response.data.returned # None

\* C14: verify_token(t) returns a user only when t decodes (the server's
\* signature, exp not reached) and user_sessions holds a row with token t
\* whose expires_at is in the future, and the user returned is the user of
\* such a row; logout(t) leaves no row with token t, and a row with token t
\* is only ever added by a register_user or login_user that returns t, so
\* that verify_token(t) returns None from a logout until then.
C14_VerifyTokenNeedsLiveSession ==
    /\ [](Verified =>
            /\ ~jwt_decode_raises(response.body.token, jwt_secret)
            /\ \E r \in BagToSet(user_sessions), u \in svc_users :
                  /\ r.token = response.body.token
                  /\ r.expires_at > clock
                  /\ r.user_id = u.id
                  /\ response.data.returned = ServiceUserData(u))
    /\ [](ServiceStep("logout") =>
            \A r \in BagToSet(user_sessions) : r.token # response.body.token)
    /\ [][\A r \in BagToSet(user_sessions') :
             CopiesIn(r, user_sessions') > CopiesIn(r, user_sessions) =>
                /\ response'.view = "service"
                /\ response'.action \in {"register_user", "login_user"}
                /\ Has(response'.data, "returned")
                /\ response'.data.returned.token = r.token]_vars

\* verify_token refused a token that still decodes: its session was deleted
C14_Witness ==
    /\ ServiceStep("verify_token")
    /\ response.data.returned = None
    /\ ~jwt_decode_raises(response.body.token, jwt_secret)
    /\ \E u \in svc_users : u.id = response.body.token.userId

\* C15: LogoutAPIView.post answers 200 'Logged out' exactly to authenticated
\* requests and 401 to the others, writes nothing, and the credentials it
\* accepted still authenticate the same user afterwards.
C15_LogoutChangesNothing ==
    /\ [](response.view = "logout" =>
            LET auth == CustomJWTAuthentication_authenticate(response.credentials)
            IN  /\ response.status \in {200, 401}
                /\ response.status = 200 <=> auth.kind = "user"
                /\ response.status = 200 =>
                      /\ response.data = Detail("Logged out")
                      /\ response.requester # AnonymousUser
                      /\ auth = AuthUser(response.requester))
    /\ [][response'.view = "logout" =>
            UNCHANGED <<svc_rows, in_flight, users, conversations, recommendations, profiles, now,
                        service>>]_vars

\* a request authenticated by its cookie alone was logged out, and the
\* cookie's token still authenticates
C15_Witness ==
    /\ response.view = "logout"
    /\ response.status = 200
    /\ response.credentials.query = Absent
    /\ response.credentials.authorization = Absent
    /\ response.credentials.x_auth_token = Absent
    /\ CustomJWTAuthentication_authenticate(response.credentials).kind = "user"

\* a source carries a token that AccessToken accepts
Validates(token) == token # Absent /\ AccessToken_validates(token)

\* the tokens the headers of a request carry as a bearer token
HeaderTokens(request) ==
    {t \in GoodTokens \cup {ExpiredToken, RefreshToken, ForgedToken} :
        \/ request.authorization = Header(<<Bearer, t>>)
        \/ /\ request.authorization = Absent
           /\ request.x_auth_token \in {Header(<<t>>), Header(<<Bearer, t>>)}}

\* the token of the first source, in the order query parameter, cookie,
\* headers, whose token validates; a set of at most one token
FirstValid(request) ==
    IF Validates(request.query) THEN {request.query}
    ELSE IF Validates(request.cookie) THEN {request.cookie}
    ELSE {t \in HeaderTokens(request) : AccessToken_validates(t)}

ActiveUser(id) == \E u \in users : u.id = id /\ u.is_active

Usable(header) ==
    /\ header # Absent
    /\ Len(header.parts) = 2
    /\ header.parts[1] = Bearer

C18_ConcurrentRegisterKeepsEmailsApart ==
    \A u1, u2 \in users : u1.email = u2.email => u1 = u2

\* two registrations of one email both passed exists(); the first was created
\* and the second was refused by the INSERT
C18_Witness ==
    /\ response.view = "register"
    /\ response.status = 500
    /\ \E u \in users : u.email = Get(response.body, "email")

\* the login of the last request names an email no account has, or names an
\* account's email with a password that is not the account's
UnknownEmail(table, email) == \A u \in table : u.email # email

WrongPassword(table, email, matches(_)) ==
    /\ \E u \in table : u.email = email
    /\ \A u \in table : u.email = email => ~matches(u)

\* C19: LoginAPIView.post answers 401 'Invalid credentials', and login_user
\* raises 'Invalid credentials', alike for an unknown email and for a known
\* email with a wrong password, and such a step changes no table.
C19_FailedLoginTellsNothing ==
    /\ [](response.view = "login" =>
            LET email == Get(response.body, "email")
                password == Get(response.body, "password")
                matches(u) == u.password = make_password(password)
            IN  (UnknownEmail(users, email)
                   \/ WrongPassword(users, email, matches)) =>
                   /\ response.status = 401
                   /\ response.data = Detail("Invalid credentials"))
    /\ [](ServiceStep("login_user") =>
            LET email == response.body.email
                password == response.body.password
                matches(u) == u.password_hash = bcrypt_hashpw(password)
            IN  (UnknownEmail(svc_users, email)
                   \/ WrongPassword(svc_users, email, matches)) =>
                   response.data = Raised("Invalid credentials"))
    /\ [][(\/ response'.view = "login" /\ response'.status = 401
           \/ /\ response'.view = "service"
              /\ response'.action = "login_user"
              /\ response'.data = Raised("Invalid credentials")) =>
            UNCHANGED <<users, conversations, recommendations, profiles, now,
                        service>>]_vars

\* a login with the wrong password for a registered email was answered 401
C19_Witness ==
    /\ response.view = "login"
    /\ response.status = 401
    /\ response.data = Detail("Invalid credentials")
    /\ Get(response.body, "password") = "wrong"
    /\ \E u \in users : u.email = Get(response.body, "email")

\* C20: a call of register_user that raises leaves the tables users and
\* user_sessions as they were, so that every user has the session of its
\* registration's token unless a later call removed it.
C20_RegisterUserRaisesLeavesTables ==
    [][(/\ response'.view = "service"
        /\ response'.action = "register_user"
        /\ Has(response'.data, "raised")) =>
          /\ svc_users' = svc_users
          /\ user_sessions' = user_sessions]_vars

\* register_user or login_user returned a user and a token
Issued ==
    /\ response.view = "service"
    /\ response.action \in {"register_user", "login_user"}
    /\ Has(response.data, "returned")

\* C21: verify_token, called next on the token a successful register_user or
\* login_user returned, returns the id and email of the user of that call;
\* a successful call adds exactly one session row, which holds that token.
C21_IssuedTokenVerifies ==
    /\ [](Issued => response.data.returned.user.email = response.body.email)
    /\ [][(/\ Issued
           /\ response'.view = "service"
           /\ response'.action = "verify_token"
           /\ response'.body.token = response.data.returned.token) =>
             response'.data = Returned(response.data.returned.user)]_vars
    /\ [][Issued' =>
            LET kept == IF response'.action = "login_user"
                        THEN cleanup_expired_sessions(user_sessions)
                        ELSE user_sessions
                added == user_sessions' (-) kept
            IN  /\ kept \sqsubseteq user_sessions'
                /\ BagCardinality(added) = 1
                /\ \A r \in BagToSet(added) :
                      /\ r.token = response'.data.returned.token
                      /\ r.user_id = response'.data.returned.user.id]_vars

\* verify_token returned the user of a token issued the same day, while the
\* table holds an older session as well
C21_Witness ==
    /\ Verified
    /\ response.body.token.exp = clock + JWT_EXPIRES_IN
    /\ \E r \in BagToSet(user_sessions) : r.expires_at < clock + SessionDays

\* C22: after a successful login_user no row of user_sessions has an
\* expires_at in the past and a row holds the returned token for the user
\* logged in; a login_user that raises leaves user_sessions as it was.
C22_LoginCleansAndAddsSession ==
    /\ []((ServiceStep("login_user") /\ Has(response.data, "returned")) =>
            /\ \A r \in BagToSet(user_sessions) : ~(r.expires_at < clock)
            /\ \E r \in BagToSet(user_sessions) :
                  /\ r.token = response.data.returned.token
                  /\ r.user_id = response.data.returned.user.id
                  /\ r.expires_at = clock + SessionDays)
    /\ [][(/\ response'.view = "service"
           /\ response'.action = "login_user"
           /\ Has(response'.data, "raised")) =>
             user_sessions' = user_sessions]_vars

\* ---------------------------------------------- claims on the service's data
\* C23: cleanup_old_data deletes the conversations more than 90 days old, the
\* user_interactions more than 365 days old and the sessions whose expires_at
\* has passed, and nothing else: every other row and the tables users,
\* user_profiles and recommendations stay; after it nothing is left for a
\* second run to delete.
C23_CleanupDeletesExactlyTheOld ==
    /\ [][(response'.view = "service" /\ response'.action = "cleanup_old_data") =>
            /\ svc_conversations' \subseteq svc_conversations
            /\ \A c \in svc_conversations :
                  c \in svc_conversations' <=>
                     clock - c.timestamp <= CONVERSATION_RETENTION_DAYS
            /\ user_interactions' \subseteq user_interactions
            /\ \A i \in user_interactions :
                  i \in user_interactions' <=>
                     clock - i.timestamp <= ANALYTICS_RETENTION_DAYS
            /\ \A r \in BagToSet(user_sessions) \cup BagToSet(user_sessions') :
                  CopiesIn(r, user_sessions') =
                     IF r.expires_at < clock THEN 0
                     ELSE CopiesIn(r, user_sessions)
            /\ UNCHANGED <<svc_users, user_profiles, svc_recommendations>>]_vars
    /\ [](ServiceStep("cleanup_old_data") =>
            /\ \A c \in svc_conversations :
                  clock - c.timestamp <= CONVERSATION_RETENTION_DAYS
            /\ \A i \in user_interactions :
                  clock - i.timestamp <= ANALYTICS_RETENTION_DAYS
            /\ \A r \in BagToSet(user_sessions) : ~(r.expires_at < clock))

\* on day 90 cleanup_old_data has removed the session of a registration but
\* left a conversation of day 0, exactly 90 days old, and a profile
C23_Witness ==
    /\ ServiceStep("cleanup_old_data")
    /\ clock = CONVERSATION_RETENTION_DAYS
    /\ \E c \in svc_conversations : c.timestamp = 0
    /\ svc_users # {}
    /\ user_sessions = EmptyBag
    /\ user_profiles # {}

\* the columns of a recommendation that feedback must not touch
SameButFeedback(before, after) ==
    /\ after.id = before.id
    /\ after.user_id = before.user_id
    /\ after.recommendation_data = before.recommendation_data

\* C24: update_recommendation_feedback sets was_helpful and feedback of the
\* recommendation with that id when it is user_id's; any other row, the data
\* and the owner of every row, and every other table stay as they are.
C24_FeedbackOnOwnRecommendationOnly ==
    [][(/\ response'.view = "service"
        /\ response'.action = "update_recommendation_feedback") =>
          LET call == response'.body
              own(r) == r.id = call.recommendation_id /\ r.user_id = call.user_id
          IN  /\ \A r \in svc_recommendations :
                    IF own(r)
                    THEN \E changed \in svc_recommendations' :
                            /\ SameButFeedback(r, changed)
                            /\ changed.was_helpful = Bool(call.was_helpful)
                            /\ changed.feedback = call.feedback
                    ELSE r \in svc_recommendations'
              /\ \A changed \in svc_recommendations' :
                    \E r \in svc_recommendations : SameButFeedback(r, changed)
              /\ Cardinality(svc_recommendations') = Cardinality(svc_recommendations)
              /\ UNCHANGED <<svc_conversations, user_interactions, user_profiles,
                             svc_users, user_sessions>>]_vars

\* a user gave feedback on a recommendation of another user, whose own
\* feedback is still in the row
C24_Witness ==
    /\ ServiceStep("update_recommendation_feedback")
    /\ \E r \in svc_recommendations :
          /\ r.id = response.body.recommendation_id
          /\ r.user_id # response.body.user_id
          /\ UserExists(response.body.user_id)
          /\ r.was_helpful = Bool(~response.body.was_helpful)

\* C25: every conversation stored, through ConversationViewSet or through
\* save_conversation, has message_type 'user' or 'assistant'.
C25_StoredMessageTypes ==
    /\ \A c \in conversations : c.message_type \in MessageTypesAllowed
    /\ \A c \in svc_conversations : c.message_type \in MessageTypesAllowed

\* the conversations of a user
HistoryOf(user_id) == {c \in svc_conversations : c.user_id = user_id}

\* C26: get_conversation_history(user_id, limit) returns min(limit, number of
\* the user's messages) messages, each a different message of user_id, oldest
\* first, and no message left out is newer than one returned;
\* clear_conversation_history(user_id) deletes the messages of user_id and no
\* other, and a get_conversation_history of that user that follows returns
\* the empty list.
C26_HistoryIsTheLatestOldestFirst ==
    /\ [](ServiceStep("get_conversation_history") =>
            LET call == response.body
                rows == response.data.returned
                mine == HistoryOf(call.user_id)
            IN  /\ Len(rows) <= call.limit
                /\ Len(rows) = IF call.limit < Cardinality(mine)
                               THEN call.limit ELSE Cardinality(mine)
                /\ \A i \in DOMAIN rows :
                      /\ rows[i].userId = call.user_id
                      /\ \E c \in mine :
                            /\ c.id = rows[i].id
                            /\ c.timestamp = rows[i].timestamp
                            /\ c.message_text = rows[i].content
                            /\ c.message_type = rows[i].role
                /\ \A i, j \in DOMAIN rows :
                      /\ i # j => rows[i].id # rows[j].id
                      /\ i < j => rows[i].timestamp <= rows[j].timestamp
                /\ \A c \in mine :
                      (\A i \in DOMAIN rows : rows[i].id # c.id) =>
                         \A i \in DOMAIN rows : c.timestamp <= rows[i].timestamp)
    /\ [][(/\ response'.view = "service"
           /\ response'.action = "clear_conversation_history") =>
             /\ svc_conversations' \subseteq svc_conversations
             /\ \A c \in svc_conversations :
                   c \in svc_conversations' <=> c.user_id # response'.body.user_id]_vars
    /\ [][(/\ ServiceStep("clear_conversation_history")
           /\ response'.view = "service"
           /\ response'.action = "get_conversation_history"
           /\ response'.body.user_id = response.body.user_id) =>
             response'.data = Returned(<<>>)]_vars

\* of two messages of a user, of different days, a history of limit 1 is the
\* newer one
C26_Witness ==
    /\ ServiceStep("get_conversation_history")
    /\ response.body.limit = 1
    /\ Len(response.data.returned) = 1
    /\ \E c \in HistoryOf(response.body.user_id) :
          c.timestamp < response.data.returned[1].timestamp

\* the call of the service that made the next state
ServiceStepNext(action) ==
    response'.view = "service" /\ response'.action = action

\* the next state is that of a save_user_profile that returned
SavedNext ==
    /\ ServiceStepNext("save_user_profile")
    /\ response'.data = Returned(None)

C28_ConcurrentGetsBothSucceed ==
    [][(/\ response'.view = "profile_detail"
        /\ response'.action = "get"
        /\ response' # response) =>
          /\ response'.status = 200
          /\ response'.data.user = response'.requester
          /\ Cardinality({q \in profiles' : q.user = response'.requester}) = 1]_vars

\* C28, the part the code keeps: no user has two profiles
C28_OneProfilePerUser ==
    \A u \in UserIds : Cardinality({q \in profiles : q.user = u}) <= 1

\* ------------------------------------------------------------ specifications
Init ==
    /\ users = {}
    /\ conversations = {}
    /\ recommendations = {}
    /\ profiles = {}
    /\ now = 0
    /\ svc_users = {}
    /\ user_sessions = EmptyBag
    /\ clock = 0
    /\ in_flight = [thread \in 1..MaxThreads |-> NoBody]
    /\ svc_conversations = {}
    /\ user_interactions = {}
    /\ user_profiles = {}
    /\ svc_recommendations = {}
    /\ svc_serial = 0
    /\ response = Response("none", "none", AnonymousUser, NoUrl, NoPk, NoBody,
                           0, Detail(""))

\* the retention of the service's tables
NextMaintenance ==
    \/ Enrol
    \/ SaveMessage
    \/ RecordInteraction
    \/ SaveBio
    \/ SaveRamp
    \/ CleanupOldData
    \/ Elapse

SpecMaintenance == Init /\ [][NextMaintenance]_vars

\* recommendations of the service and the feedback on them
NextFeedback == Enrol \/ SaveRamp \/ UpdateRecommendationFeedback

SpecFeedback == Init /\ [][NextFeedback]_vars

\* conversations stored through the ORM and through the service
NextStore == CreateAccount \/ ConversationPost \/ Enrol \/ SaveConversation

SpecStore == Init /\ [][NextStore]_vars

\* the conversation history of the service
NextHistory ==
    \/ Enrol
    \/ SaveMessage
    \/ GetConversationHistory
    \/ ClearConversationHistory
    \/ Elapse

SpecHistory == Init /\ [][NextHistory]_vars

\* the profiles of the service
NextProfileStore ==
    \/ Enrol
    \/ SaveUserProfile
    \/ GetUserProfile
    \/ DeleteUserProfile

SpecProfileStore == Init /\ [][NextProfileStore]_vars

\* reads of the profile served at the same time
NextProfileThreads == CreateAccount \/ ProfileGetSelect \/ ProfileGetCreate

SpecProfileThreads == Init /\ [][NextProfileThreads]_vars

\* registrations served at the same time
NextThreads == RegisterFilter \/ RegisterCreate

SpecThreads == Init /\ [][NextThreads]_vars

\* the accounts endpoints
NextUsers == Register \/ CreateUser

SpecUsers == Init /\ [][NextUsers]_vars

\* the chat and recommendation endpoints
NextRows == CreateAccount \/ ConversationRequest \/ RecommendationRequest

SpecRows == Init /\ [][NextRows]_vars

\* registration and login, and the administrator who deactivates a user
NextLogin == Register \/ Login \/ Deactivate

SpecLogin == Init /\ [][NextLogin]_vars

\* authentication of requests, and the logout endpoint
NextAuth == CreateAccount \/ Deactivate \/ Authenticate \/ LogoutRequest

SpecAuth == Init /\ [][NextAuth]_vars

\* registration and login, over REST and through PostgreSQLService
NextPasswords == Register \/ Login \/ RegisterUser \/ LoginUser

SpecPasswords == Init /\ [][NextPasswords]_vars

\* the accounts and sessions of PostgreSQLService
NextSessions == RegisterUser \/ LoginUser \/ VerifyToken \/ Logout \/ Tick

SpecSessions == Init /\ [][NextSessions]_vars

\* the chat endpoints
NextChat == CreateAccount \/ ConversationRequest

SpecChat == Init /\ [][NextChat]_vars

\* the profile endpoints
NextProfiles == CreateAccount \/ ProfileRequest

SpecProfiles == Init /\ [][NextProfiles]_vars

====
